---- MODULE Spec2Model ----
(***************************************************************************)
(* Model of the MLP weight codec (tools/ml/export.py,                      *)
(* tools/unicon_training/export.py, tools/calm_export.py,                  *)
(* tools/calm_encode_library.py), of the MLP forward passes and of the     *)
(* AMP observation layout (tools/motion_dataset.py).                       *)
(*                                                                         *)
(* Files are sequences of bytes (0..255).  A number is written and read    *)
(* little-endian, four bytes at a time, as struct.pack("<I") / "<f" do.    *)
(* A float is represented by the integer v that stands for the real        *)
(* v * 2^-24: v = 0 is 0.0 and v in [2^24, 2^25) is a double in [1, 2).    *)
(* Only the even v of that range are float32 values.                       *)
(***************************************************************************)
EXTENDS Integers, Sequences, FiniteSets, TLC

VARIABLES
    stage,      \* position of the codec scenario: "start", "written", "write_failed",
                \* "tampered", "read"
    writer,     \* name of the writer that produced the file
    written,    \* the layers handed to the writer (before float32 conversion)
    file,       \* the bytes of the weight file on disk
    tamper,     \* what was done to the file after it was written
    reader,     \* name of the reader that ran last
    result,     \* what the reader did: [status, error, layers, parsed]
    fwd_stage,  \* position of the inference scenario: "start", "loaded", "done"
    fwd_layers, \* the layers of the loaded model
    fwd_x,      \* the input vector of forward_mlp_numpy
    fwd_out,    \* what forward_mlp_numpy did: [ok, x]
    pol_stage,  \* position of the policy test: "start", "created", "compared"
    pol_network, \* the modules of MLPPolicy.network
    pol_obs,    \* the input of the policy test
    pytorch_output, \* policy(obs)
    manual_output,  \* the test's loop over get_layer_params
    bone_defs,  \* the joint table the observation module was built from
    self,       \* the AMPObservationComputer
    pc,         \* position inside compute_frame
    obs,        \* compute_frame's obs array
    idx,        \* compute_frame's write index
    kb,         \* the number of turns of compute_frame's key-body loop so far
    writes,     \* the slices written so far, in order: <<field, first, last>>
    frame_in,   \* the arguments of the last compute_frame call
    frame_out,  \* what that call did: [raised, obs]
    rot_in,     \* the quaternion handed to the rotation functions: [q, e]
    rot_op,     \* the rotation function that ran last
    rot_out,    \* what it returned
    clip_in,    \* the converter that runs and the bones its source file has
    clip_slots, \* the joint slots of the frame the converter wrote so far
    clip_reads, \* the slots the encoder read for the DOF entries so far
    enc_self,   \* the StateEncoder: [num_joints, tau]
    enc_targets, \* len(target_frames) of the encode call
    enc_pc,     \* position inside encode: "idle", "current", "target", "root_offset", "done"
    enc_k,      \* the loop variable k of encode
    enc_offset, \* encode's write offset
    enc_obs,    \* encode's obs array
    enc_starts, \* where each slot was placed: <<slot, k, offset>>
    lib_args,   \* the command line of calm_encode_library.py, the encoder file and the clip files
    lib_stage,  \* position of the library tool: "idle", "start", "encoding", "written", "exit"
    lib_next,   \* the number of clip files the loop has taken
    lib_behaviors, \* the behaviors list built so far
    lib_library, \* the JSON document written
    pure_first, \* the objects of the purity scenario as they were constructed
    pure_heap,  \* the same objects now: the encoder, the pose arrays, the layers, the inputs
    pure_log,   \* the calls made so far, in order: [fn, args, result]
    cobs_clip,  \* the MotionClip handed to compute_clip_observations
    cobs_fps,   \* the fps argument (None when omitted)
    cobs_stage, \* "idle", "start", "loop", "returned" or "raised"
    cobs_dt,    \* dt of compute_clip_observations
    cobs_fi,    \* the loop variable fi
    cobs_calls, \* the arguments of the compute_frame calls made so far, in order
    cobs_observations, \* the observations array
    data_clips, \* MotionDataset.clips: [id, num_frames, observations, encodes], encodes
                \* counting the compute_observations calls on the clip
    data_last,  \* the method of the dataset that ran last
    data_batch, \* what the last sample_observations call did: [raised, rows]
    data_ops,    \* the number of method calls so far
    tag_call, \* the exporter called: [exporter, num_layers, activation_type]
    tag_stage, \* "idle", "start", "written", "write_failed" or "read"
    tag_file, \* the bytes of the file the exporter wrote
    tag_read, \* what load_mlp_bin made of the file
    seq_state_dict, \* the checkpoint's state dict handed to extract_sequential_layers
    seq_stage, \* "idle", "start", "loaded" or "returned"
    seq_activations, \* the activations argument
    seq_layers, \* the list extract_sequential_layers returned
    venv_self, \* the DummyVecEnv: [num_envs, obs_dim, episode_length, _step_counts]
    venv_last, \* "idle", "start", "init", "reset" or "step": the method that ran last
    venv_out, \* what the last call returned: [obs, rewards, dones, infos]
    venv_steps, \* the number of step calls since the last reset call (since construction before one)
    venv_calls \* the number of step calls so far

codecVars == <<stage, writer, written, file, tamper, reader, result>>

fwdVars == <<fwd_stage, fwd_layers, fwd_x, fwd_out>>

policyVars == <<pol_stage, pol_network, pol_obs, pytorch_output, manual_output>>

obsVars == <<bone_defs, self, pc, obs, idx, kb, writes>>

frameVars == <<frame_in, frame_out>>

rotVars == <<rot_in, rot_op, rot_out>>

clipVars == <<clip_in, clip_slots, clip_reads>>

encVars == <<enc_self, enc_targets, enc_pc, enc_k, enc_offset, enc_obs, enc_starts>>

libVars == <<lib_args, lib_stage, lib_next, lib_behaviors, lib_library>>

pureVars == <<pure_first, pure_heap, pure_log>>

cobsVars == <<cobs_clip, cobs_fps, cobs_stage, cobs_dt, cobs_fi, cobs_calls, cobs_observations>>

dataVars == <<data_clips, data_last, data_batch, data_ops>>

tagVars == <<tag_call, tag_stage, tag_file, tag_read>>

seqVars == <<seq_state_dict, seq_stage, seq_activations, seq_layers>>

venvVars == <<venv_self, venv_last, venv_out, venv_steps, venv_calls>>

toolVars == <<encVars, libVars, pureVars, cobsVars, dataVars, tagVars, seqVars, venvVars>>

earlierVars == <<codecVars, fwdVars, policyVars, obsVars, frameVars, rotVars, clipVars>>

besideEnc == <<libVars, pureVars, cobsVars, dataVars, tagVars, seqVars, venvVars>>

besideLib == <<encVars, pureVars, cobsVars, dataVars, tagVars, seqVars, venvVars>>

besideCobs == <<encVars, libVars, pureVars, dataVars, tagVars, seqVars, venvVars>>

besideData == <<encVars, libVars, pureVars, cobsVars, tagVars, seqVars, venvVars>>

besidePure == <<encVars, libVars, cobsVars, dataVars, tagVars, seqVars, venvVars>>

besideTag == <<encVars, libVars, pureVars, cobsVars, dataVars, seqVars, venvVars>>

besideSeq == <<encVars, libVars, pureVars, cobsVars, dataVars, tagVars, venvVars>>

besideVenv == <<encVars, libVars, pureVars, cobsVars, dataVars, tagVars, seqVars>>

poseVars == <<frameVars, rotVars, clipVars, toolVars>>

vars == <<codecVars, fwdVars, policyVars, obsVars, poseVars>>

\* the scenarios a specification does not run stay where they are
FwdIdle ==
    /\ fwd_stage = "idle"
    /\ fwd_layers = << >>
    /\ fwd_x = << >>
    /\ fwd_out = [ok |-> TRUE, x |-> << >>]

PolicyIdle ==
    /\ pol_stage = "idle"
    /\ pol_network = << >>
    /\ pol_obs = << >>
    /\ pytorch_output = [ok |-> TRUE, x |-> << >>]
    /\ manual_output = [ok |-> TRUE, x |-> << >>]

ObsIdle ==
    /\ bone_defs = << >>
    /\ self = [obs_dim |-> 0, dof_mappings |-> << >>, key_body_indices |-> << >>,
               num_dofs |-> 0]
    /\ pc = "idle"
    /\ obs = << >>
    /\ idx = 0
    /\ kb = 0
    /\ writes = << >>

FrameIdle ==
    /\ frame_in = << >>
    /\ frame_out = [raised |-> FALSE, obs |-> << >>]

RotIdle ==
    /\ rot_in = << >>
    /\ rot_op = "idle"
    /\ rot_out = << >>

ClipIdle ==
    /\ clip_in = << >>
    /\ clip_slots = << >>
    /\ clip_reads = << >>

EncIdle ==
    /\ enc_self = << >>
    /\ enc_targets = 0
    /\ enc_pc = "idle"
    /\ enc_k = 0
    /\ enc_offset = 0
    /\ enc_obs = << >>
    /\ enc_starts = << >>

LibIdle ==
    /\ lib_args = << >>
    /\ lib_stage = "idle"
    /\ lib_next = 0
    /\ lib_behaviors = << >>
    /\ lib_library = << >>

PureIdle ==
    /\ pure_first = << >>
    /\ pure_heap = << >>
    /\ pure_log = << >>

CobsIdle ==
    /\ cobs_clip = << >>
    /\ cobs_fps = << >>
    /\ cobs_stage = "idle"
    /\ cobs_dt = << >>
    /\ cobs_fi = 0
    /\ cobs_calls = << >>
    /\ cobs_observations = << >>

DataIdle ==
    /\ data_clips = << >>
    /\ data_last = "idle"
    /\ data_batch = << >>
    /\ data_ops = 0

TagIdle ==
    /\ tag_call = << >>
    /\ tag_stage = "idle"
    /\ tag_file = << >>
    /\ tag_read = << >>

SeqIdle ==
    /\ seq_state_dict = << >>
    /\ seq_stage = "idle"
    /\ seq_activations = << >>
    /\ seq_layers = << >>

VenvIdle ==
    /\ venv_self = << >>
    /\ venv_last = "idle"
    /\ venv_out = << >>
    /\ venv_steps = 0
    /\ venv_calls = 0

ToolIdle == EncIdle /\ LibIdle /\ PureIdle /\ CobsIdle /\ DataIdle /\ TagIdle /\ SeqIdle /\ VenvIdle

PoseIdle == FrameIdle /\ RotIdle /\ ClipIdle /\ ToolIdle

----------------------------------------------------------------------------
(* Bounds of the model *)

MaxLayers == 2
MaxDim == 2
MaxCut == 5
MaxAppend == 2
MaxJoints == 3
MaxEncJoints == 2
MaxTau == 3
MaxClips == 2
MaxCalls == 3
MaxFrames == 3
MaxDataClips == 2
MaxOps == 4
MaxLinear == 6
MaxEnvs == 2
MaxEpisode == 3
MaxSteps == 7

----------------------------------------------------------------------------
(* Format constants *)

ml_MAGIC == 1296846897
ml_VERSION == 1
ACT_NONE == 0
ACT_RELU == 1
ACT_TANH == 2
ACT_ELU == 3
unicon_MAGIC == 1296846849
calm_MAGIC == 1296846897
calm_VERSION == 1
library_MAGIC == 1296846897
library_VERSION == 1
library_ACTIVATION_NONE == 0
library_ACTIVATION_RELU == 1
library_ACTIVATION_TANH == 2
ACTIVATION_NONE == 0
ACTIVATION_RELU == 1
ACTIVATION_TANH == 2

----------------------------------------------------------------------------
(* Bytes, uint32 and float32 *)

Min(a, b) == IF a < b THEN a ELSE b

\* struct.pack("<I", n): four bytes, least significant first
PackU32(n) ==
    << n % 256, (n \div 256) % 256, (n \div 65536) % 256, (n \div 16777216) % 256 >>

\* struct.unpack("<I", b) of four bytes.  Values of 2^31 and above are
\* reported as 2^31 - 1: they equal no constant of the format and exceed
\* every length the model can hold.
UnpackU32(b) ==
    IF b[4] >= 128 THEN 2147483647
    ELSE b[1] + 256 * b[2] + 65536 * b[3] + 16777216 * b[4]

One24 == 2^24

\* bit pattern of 1.0f: biased exponent 127 above a 23-bit mantissa
F32One == 127 * 2^23

\* .float() / astype(np.float32): round to the nearest float32, ties to the
\* even significand.  v stands for v * 2^-24; in [1, 2) float32 steps by 2.
ToFloat32(v) ==
    IF v % 2 = 0 THEN v
    ELSE IF ((v - 1) \div 2) % 2 = 0 THEN v - 1 ELSE v + 1

\* the IEEE-754 single bit pattern of a float32 value
F32Bits(v) == IF v = 0 THEN 0 ELSE F32One + (v - One24) \div 2

\* the float32 value of a bit pattern; -1 stands for every float outside
\* {0.0} \cup [1, 2)
F32FromBits(b) ==
    IF b = 0 THEN 0
    ELSE IF b >= F32One /\ b < F32One + One24 \div 2 THEN One24 + 2 * (b - F32One)
    ELSE -1

\* ndarray.tobytes() / struct.pack("<Nf") of float32 values
RECURSIVE PackF32s(_)
PackF32s(vs) ==
    IF vs = << >> THEN << >>
    ELSE PackU32(F32Bits(ToFloat32(Head(vs)))) \o PackF32s(Tail(vs))

\* np.frombuffer(b, dtype=np.float32) / struct.unpack("<Nf", b), Len(b) % 4 = 0
RECURSIVE UnpackF32s(_)
UnpackF32s(b) ==
    IF Len(b) < 4 THEN << >>
    ELSE << F32FromBits(UnpackU32(SubSeq(b, 1, 4))) >> \o UnpackF32s(SubSeq(b, 5, Len(b)))

\* f.read(n) at offset pos: at most n bytes, fewer at the end of the file
Read(f, pos, n) == SubSeq(f, pos + 1, Min(pos + n, Len(f)))

\* a * b, reported as lim + 1 when it exceeds lim (Python integers do not
\* overflow; a read of more than lim bytes is short either way)
BoundedMul(a, b, lim) ==
    IF a = 0 \/ b = 0 THEN 0
    ELSE IF a > lim \/ b > lim THEN lim + 1
    ELSE Min(a * b, lim + 1)

----------------------------------------------------------------------------
(* Input data: tensors are [shape, data] with data in C (row-major) order *)

\* the k-th element of the l-th layer's weight tensor: distinct doubles in
\* [1, 2), odd ones not representable as float32
WeightValue(l, k) == One24 + 3 * (16 * (l - 1) + k)

\* the k-th element of the l-th layer's bias tensor
BiasValue(l, k) == One24 + 3 * (128 + 16 * (l - 1) + k)

\* an nn.Linear(in_f, out_f) weight, shape [out_f, in_f]
LinearWeight(l, in_f, out_f) ==
    [shape |-> <<out_f, in_f>>, data |-> [k \in 1..(out_f * in_f) |-> WeightValue(l, k)]]

LinearBias(l, out_f) == [k \in 1..out_f |-> BiasValue(l, k)]

\* element [o][i] (1-based) of a 2-D tensor
At(w, o, i) == w.data[(o - 1) * w.shape[2] + i]

----------------------------------------------------------------------------
(* tools/calm_export.py *)

\* write_mlp_bin_layer with the weights written column by column
write_mlp_bin_layer_column_major(layer) ==
    LET out_features == layer.weight.shape[1]
        in_features == layer.weight.shape[2]
    IN  PackU32(in_features) \o PackU32(out_features) \o PackU32(layer.activation)
        \o PackF32s([k \in 1..(out_features * in_features) |->
                        At(layer.weight, ((k - 1) % out_features) + 1,
                                         ((k - 1) \div out_features) + 1)])
        \o PackF32s(layer.bias)

write_mlp_bin_layer(layer) ==
    LET out_features == layer.weight.shape[1]
        in_features == layer.weight.shape[2]
    IN  PackU32(in_features) \o PackU32(out_features) \o PackU32(layer.activation)
        \o PackF32s(layer.weight.data)
        \o PackF32s(layer.bias)

RECURSIVE write_mlp_bin_layers(_)
write_mlp_bin_layers(layers) ==
    IF layers = << >> THEN << >>
    ELSE write_mlp_bin_layer(Head(layers)) \o write_mlp_bin_layers(Tail(layers))

write_mlp_bin(layers) ==
    [ok |-> TRUE,
     bytes |-> PackU32(calm_MAGIC) \o PackU32(calm_VERSION) \o PackU32(Len(layers))
               \o write_mlp_bin_layers(layers)]

\* create_dummy_checkpoint.make_layers: one dict per (in_f, out_f, act),
\* random weights and zero biases
make_layers(dims) ==
    [l \in 1..Len(dims) |->
        [weight |-> LinearWeight(l, dims[l][1], dims[l][2]),
         bias |-> [k \in 1..dims[l][2] |-> 0],
         activation |-> dims[l][3]]]

\* A state dict is a function on its keys.  The key "<prefix><name>.<param>"
\* is <<prefix, name, param>>: the prefix and the parameter ("weight" or
\* "bias") are strings, the module name is the sequence of its character
\* codes ("10" is <<49, 48>>).

\* str(n) of a natural number, as character codes
RECURSIVE str(_)
str(n) == IF n < 10 THEN <<48 + n>> ELSE str(n \div 10) \o <<48 + (n % 10)>>

\* a < b on strings, compared character by character as Python does
RECURSIVE StrLess(_, _)
StrLess(a, b) ==
    IF b = << >> THEN FALSE
    ELSE IF a = << >> THEN TRUE
    ELSE IF Head(a) # Head(b) THEN Head(a) < Head(b)
    ELSE StrLess(Tail(a), Tail(b))

\* the part of a key after the prefix up to the parameter: the name and the
\* "." (code 46) that follows it
KeyText(k) == k[2] \o <<46>>

\* sorted(keys) on keys of one prefix and one parameter
RECURSIVE sorted(_)
sorted(keys) ==
    IF keys = {} THEN << >>
    ELSE LET first == CHOOSE k \in keys : \A j \in keys \ {k} :
                          StrLess(KeyText(k), KeyText(j))
         IN  <<first>> \o sorted(keys \ {first})

\* the state dict of an nn.Sequential of Linear and activation modules in
\* turn under the prefix: the l-th Linear, widths[l][1] -> widths[l][2], is
\* module 2 * (l - 1)
SequentialStateDict(prefix, widths) ==
    LET LinearOf(k) == CHOOSE l \in 1..Len(widths) : str(2 * (l - 1)) = k[2]
    IN  [k \in {<<prefix, str(2 * (l - 1)), param>> :
                    l \in 1..Len(widths), param \in {"weight", "bias"}} |->
            IF k[3] = "weight"
            THEN LinearWeight(LinearOf(k), widths[LinearOf(k)][1], widths[LinearOf(k)][2])
            ELSE LinearBias(LinearOf(k), widths[LinearOf(k)][2])]

\* extract_sequential_layers: the weight keys under the prefix in sorted
\* order, those without a bias key skipped, then the activations assigned
\* by position in the list of layers kept, None past the end of the list
extract_sequential_layers(state_dict, prefix, activations) ==
    LET weight_keys == sorted({k \in DOMAIN state_dict : k[1] = prefix /\ k[3] = "weight"})
        bk(wk) == <<wk[1], wk[2], "bias">>
        HasBias(wk) == bk(wk) \in DOMAIN state_dict
        kept == SelectSeq(weight_keys, HasBias)
    IN  [i \in 1..Len(kept) |->
            [weight |-> state_dict[kept[i]],
             bias |-> state_dict[bk(kept[i])],
             activation |-> IF i <= Len(activations) THEN activations[i]
                            ELSE ACTIVATION_NONE]]

----------------------------------------------------------------------------
(* tools/unicon_training/policy.py *)

\* MLPPolicy.__init__ and load_state_dict: hidden_layers times (Linear, ELU),
\* then the output Linear.  The l-th Linear holds the l-th entry of the
\* state dict, weight in shape [out_features, in_features].
MLPPolicy(input_dim, output_dim, hidden_dim, hidden_layers, state_dict) ==
    [m \in 1..(2 * hidden_layers + 1) |->
        IF m % 2 = 1
        THEN LET l == (m + 1) \div 2
                 in_f == IF l = 1 THEN input_dim ELSE hidden_dim
                 out_f == IF l = hidden_layers + 1 THEN output_dim ELSE hidden_dim
             IN  [kind |-> "Linear", in_features |-> in_f, out_features |-> out_f,
                  weight |-> [shape |-> <<out_f, in_f>>,
                              data |-> SubSeq(state_dict.weight[l], 1, out_f * in_f)],
                  bias |-> SubSeq(state_dict.bias[l], 1, out_f)]
        ELSE [kind |-> "ELU", in_features |-> 0, out_features |-> 0,
              weight |-> [shape |-> <<0, 0>>, data |-> << >>], bias |-> << >>]]

IsLinear(module) == module.kind = "Linear"

\* get_layer_params yielding the layers last to first
get_layer_params_reversed(network) ==
    LET linear == SelectSeq(network, IsLinear)
        n == Len(linear)
    IN  [l \in 1..n |->
            [weights |-> linear[n + 1 - l].weight, biases |-> linear[n + 1 - l].bias,
             in_dim |-> linear[n + 1 - l].in_features,
             out_dim |-> linear[n + 1 - l].out_features]]

\* MLPPolicy.get_layer_params: (weight, bias, in, out) of every Linear, in
\* network order
get_layer_params(network) ==
    LET linear == SelectSeq(network, IsLinear)
    IN  [l \in 1..Len(linear) |->
            [weights |-> linear[l].weight, biases |-> linear[l].bias,
             in_dim |-> linear[l].in_features, out_dim |-> linear[l].out_features]]

----------------------------------------------------------------------------
(* tools/ml/export.py *)

\* sum of the per-layer byte counts the exporters expect, hdr bytes of
\* layer header each
RECURSIVE expected_layer_bytes(_, _)
expected_layer_bytes(layers, hdr) ==
    IF layers = << >> THEN 0
    ELSE hdr + Head(layers).out_dim * Head(layers).in_dim * 4 + Head(layers).out_dim * 4
         + expected_layer_bytes(Tail(layers), hdr)

\* the loop of export_policy from layer i on; acc is what the file holds.
\* A failed shape assertion leaves the file as written so far.
RECURSIVE ml_export_policy_layers(_, _, _, _)
ml_export_policy_layers(layers, i, activation_type, acc) ==
    IF i > Len(layers) THEN [ok |-> TRUE, bytes |-> acc]
    ELSE LET L == layers[i]
             act == IF i < Len(layers) THEN activation_type ELSE ACT_NONE
             hdr == acc \o PackU32(L.in_dim) \o PackU32(L.out_dim) \o PackU32(act)
             w == hdr \o PackF32s(L.weights.data)
         IN  IF L.weights.shape # <<L.out_dim, L.in_dim>> THEN [ok |-> FALSE, bytes |-> hdr]
             ELSE IF Len(L.biases) # L.out_dim THEN [ok |-> FALSE, bytes |-> w]
             ELSE ml_export_policy_layers(layers, i + 1, activation_type,
                                          w \o PackF32s(L.biases))

ml_export_policy(layers, activation_type) ==
    LET wrote == ml_export_policy_layers(layers, 1, activation_type,
                     PackU32(ml_MAGIC) \o PackU32(ml_VERSION) \o PackU32(Len(layers)))
        expected_size == 12 + expected_layer_bytes(layers, 12)
    IN  [ok |-> wrote.ok /\ Len(wrote.bytes) = expected_size, bytes |-> wrote.bytes]

\* the n-th value drawn from random.Random(seed).gauss: some double
Gauss(seed, n) == One24 + 3 * n + seed

\* random_layers with one bias per input instead of one per output
RECURSIVE random_layers_bias_per_input(_, _, _, _, _, _)
random_layers_bias_per_input(prev_dim, output_dim, hidden_dim, hidden_layers, seed, drawn) ==
    LET out_dim == IF hidden_layers > 0 THEN hidden_dim ELSE output_dim
        layer == [weights |-> [k \in 1..(out_dim * prev_dim) |-> Gauss(seed, drawn + k)],
                  biases |-> [k \in 1..prev_dim |-> 0],
                  in_dim |-> prev_dim, out_dim |-> out_dim]
    IN  IF hidden_layers > 0
        THEN <<layer>> \o random_layers_bias_per_input(hidden_dim, output_dim, hidden_dim,
                                        hidden_layers - 1, seed, drawn + out_dim * prev_dim)
        ELSE <<layer>>

\* export_random_policy's layer list: hidden_layers layers into hidden_dim,
\* then one into the output; weights drawn in order from one generator,
\* biases zero
RECURSIVE random_layers(_, _, _, _, _, _)
random_layers(prev_dim, output_dim, hidden_dim, hidden_layers, seed, drawn) ==
    LET out_dim == IF hidden_layers > 0 THEN hidden_dim ELSE output_dim
        layer == [weights |-> [k \in 1..(out_dim * prev_dim) |-> Gauss(seed, drawn + k)],
                  biases |-> [k \in 1..out_dim |-> 0],
                  in_dim |-> prev_dim, out_dim |-> out_dim]
    IN  IF hidden_layers > 0
        THEN <<layer>> \o random_layers(hidden_dim, output_dim, hidden_dim,
                                        hidden_layers - 1, seed, drawn + out_dim * prev_dim)
        ELSE <<layer>>

\* _make_layer divides by in_dim + out_dim
make_layer_fails(layers) == \E l \in 1..Len(layers) : layers[l].in_dim + layers[l].out_dim = 0

\* ml_random_layer_bytes with the requested tag on the last layer too
RECURSIVE ml_random_layer_bytes_all_tagged(_, _, _)
ml_random_layer_bytes_all_tagged(layers, i, activation_type) ==
    IF i > Len(layers) THEN << >>
    ELSE LET L == layers[i]
         IN  PackU32(L.in_dim) \o PackU32(L.out_dim) \o PackU32(activation_type)
             \o PackF32s(L.weights) \o PackF32s(L.biases)
             \o ml_random_layer_bytes_all_tagged(layers, i + 1, activation_type)

RECURSIVE ml_random_layer_bytes(_, _, _)
ml_random_layer_bytes(layers, i, activation_type) ==
    IF i > Len(layers) THEN << >>
    ELSE LET L == layers[i]
             act == IF i < Len(layers) THEN activation_type ELSE ACT_NONE
         IN  PackU32(L.in_dim) \o PackU32(L.out_dim) \o PackU32(act)
             \o PackF32s(L.weights) \o PackF32s(L.biases)
             \o ml_random_layer_bytes(layers, i + 1, activation_type)

ml_export_random_policy(input_dim, output_dim, hidden_dim, hidden_layers, activation_type, seed) ==
    LET layers == random_layers(input_dim, output_dim, hidden_dim, hidden_layers, seed, 0)
    IN  IF make_layer_fails(layers) THEN [ok |-> FALSE, bytes |-> << >>]
        ELSE [ok |-> TRUE,
              bytes |-> PackU32(ml_MAGIC) \o PackU32(ml_VERSION) \o PackU32(Len(layers))
                        \o ml_random_layer_bytes(layers, 1, activation_type)]

----------------------------------------------------------------------------
(* tools/unicon_training/export.py *)

RECURSIVE unicon_export_policy_layers(_, _, _)
unicon_export_policy_layers(layers, i, acc) ==
    IF i > Len(layers) THEN [ok |-> TRUE, bytes |-> acc]
    ELSE LET L == layers[i]
             hdr == acc \o PackU32(L.in_dim) \o PackU32(L.out_dim)
             w == hdr \o PackF32s(L.weights.data)
         IN  IF L.weights.shape # <<L.out_dim, L.in_dim>> THEN [ok |-> FALSE, bytes |-> hdr]
             ELSE IF Len(L.biases) # L.out_dim THEN [ok |-> FALSE, bytes |-> w]
             ELSE unicon_export_policy_layers(layers, i + 1, w \o PackF32s(L.biases))

unicon_export_policy(layers) ==
    LET wrote == unicon_export_policy_layers(layers, 1,
                     PackU32(unicon_MAGIC) \o PackU32(Len(layers)))
        expected_size == 8 + expected_layer_bytes(layers, 8)
    IN  [ok |-> wrote.ok /\ Len(wrote.bytes) = expected_size, bytes |-> wrote.bytes]

RECURSIVE unicon_random_layer_bytes(_, _)
unicon_random_layer_bytes(layers, i) ==
    IF i > Len(layers) THEN << >>
    ELSE LET L == layers[i]
         IN  PackU32(L.in_dim) \o PackU32(L.out_dim)
             \o PackF32s(L.weights) \o PackF32s(L.biases)
             \o unicon_random_layer_bytes(layers, i + 1)

unicon_export_random_policy(obs_dim, act_dim, hidden_dim, hidden_layers, seed) ==
    LET layers == random_layers(obs_dim, act_dim, hidden_dim, hidden_layers, seed, 0)
    IN  IF make_layer_fails(layers) THEN [ok |-> FALSE, bytes |-> << >>]
        ELSE [ok |-> TRUE,
              bytes |-> PackU32(unicon_MAGIC) \o PackU32(Len(layers))
                        \o unicon_random_layer_bytes(layers, 1)]

----------------------------------------------------------------------------
(* Readers.  A reader's outcome is [status, error, layers, parsed]: status *)
(* "ok" or "error" (an exception left the function), the exception's name, *)
(* the layers returned (none when an exception was raised, none for the    *)
(* verify functions, which return nothing) and the number of layers        *)
(* parsed before the function ended.                                       *)

Failed(error, parsed) ==
    [status |-> "error", error |-> error, layers |-> << >>, parsed |-> parsed]

Returned(layers, parsed) ==
    [status |-> "ok", error |-> "", layers |-> layers, parsed |-> parsed]

\* tools/ml/export.py verify_weights, the loop from layer i (0-based) at
\* offset pos, then the trailing-bytes assertion
RECURSIVE ml_verify_layers(_, _, _, _)
ml_verify_layers(f, pos, i, num_layers) ==
    IF i >= num_layers
    THEN IF Len(f) - pos = 0 THEN Returned(<< >>, i) ELSE Failed("AssertionError", i)
    ELSE LET head == Read(f, pos, 12)
         IN  IF Len(head) < 12 THEN Failed("struct.error", i)
             ELSE LET in_dim == UnpackU32(SubSeq(head, 1, 4))
                      out_dim == UnpackU32(SubSeq(head, 5, 8))
                      weight_count == BoundedMul(out_dim, in_dim, Len(f))
                      weight_bytes == Read(f, pos + 12, BoundedMul(weight_count, 4, Len(f)))
                      bias_bytes == Read(f, pos + 12 + Len(weight_bytes),
                                         BoundedMul(out_dim, 4, Len(f)))
                  IN  IF Len(weight_bytes) # BoundedMul(weight_count, 4, Len(f))
                      THEN Failed("AssertionError", i)
                      ELSE IF Len(bias_bytes) # BoundedMul(out_dim, 4, Len(f))
                      THEN Failed("AssertionError", i)
                      \* min(weights), min(biases) of an empty tuple
                      ELSE IF weight_count = 0 \/ out_dim = 0 THEN Failed("ValueError", i)
                      ELSE ml_verify_layers(f, pos + 12 + Len(weight_bytes) + Len(bias_bytes),
                                            i + 1, num_layers)

ml_verify_weights(f) ==
    LET head == Read(f, 0, 12)
    IN  IF Len(head) < 12 THEN Failed("struct.error", 0)
        ELSE IF UnpackU32(SubSeq(head, 1, 4)) # ml_MAGIC THEN Failed("AssertionError", 0)
        ELSE IF UnpackU32(SubSeq(head, 5, 8)) # ml_VERSION THEN Failed("AssertionError", 0)
        ELSE ml_verify_layers(f, 12, 0, UnpackU32(SubSeq(head, 9, 12)))

\* tools/unicon_training/export.py verify_weights
RECURSIVE unicon_verify_layers(_, _, _, _)
unicon_verify_layers(f, pos, i, num_layers) ==
    IF i >= num_layers
    THEN IF Len(f) - pos = 0 THEN Returned(<< >>, i) ELSE Failed("AssertionError", i)
    ELSE LET in_bytes == Read(f, pos, 4)
             out_bytes == Read(f, pos + 4, 4)
         IN  IF Len(in_bytes) < 4 \/ Len(out_bytes) < 4 THEN Failed("struct.error", i)
             ELSE LET in_dim == UnpackU32(in_bytes)
                      out_dim == UnpackU32(out_bytes)
                      weight_count == BoundedMul(out_dim, in_dim, Len(f))
                      weight_bytes == Read(f, pos + 8, BoundedMul(weight_count, 4, Len(f)))
                      bias_bytes == Read(f, pos + 8 + Len(weight_bytes),
                                         BoundedMul(out_dim, 4, Len(f)))
                  IN  IF Len(weight_bytes) # BoundedMul(weight_count, 4, Len(f))
                      THEN Failed("AssertionError", i)
                      ELSE IF Len(bias_bytes) # BoundedMul(out_dim, 4, Len(f))
                      THEN Failed("AssertionError", i)
                      ELSE IF weight_count = 0 \/ out_dim = 0 THEN Failed("ValueError", i)
                      ELSE unicon_verify_layers(f, pos + 8 + Len(weight_bytes) + Len(bias_bytes),
                                                i + 1, num_layers)

unicon_verify_weights(f) ==
    LET magic_bytes == Read(f, 0, 4)
        count_bytes == Read(f, 4, 4)
    IN  IF Len(magic_bytes) < 4 THEN Failed("struct.error", 0)
        ELSE IF UnpackU32(magic_bytes) # unicon_MAGIC THEN Failed("AssertionError", 0)
        ELSE IF Len(count_bytes) < 4 THEN Failed("struct.error", 0)
        ELSE unicon_verify_layers(f, 8, 0, UnpackU32(count_bytes))

\* tools/calm_encode_library.py load_mlp_bin, the loop with num_layers - i
\* layers to go.  np.frombuffer raises on a length that is not a multiple
\* of 4, reshape on a weight buffer of the wrong size; the bias buffer is
\* taken as read, and nothing is read after the last layer.
RECURSIVE load_mlp_bin_layers(_, _, _, _, _)
load_mlp_bin_layers(f, pos, i, num_layers, layers) ==
    IF i >= num_layers THEN Returned(layers, i)
    ELSE LET head == Read(f, pos, 12)
         IN  IF Len(head) < 12 THEN Failed("struct.error", i)
             ELSE LET in_f == UnpackU32(SubSeq(head, 1, 4))
                      out_f == UnpackU32(SubSeq(head, 5, 8))
                      act == UnpackU32(SubSeq(head, 9, 12))
                      count == BoundedMul(out_f, in_f, Len(f))
                      weight_bytes == Read(f, pos + 12, BoundedMul(count, 4, Len(f)))
                      bias_bytes == Read(f, pos + 12 + Len(weight_bytes),
                                         BoundedMul(out_f, 4, Len(f)))
                  IN  IF Len(weight_bytes) % 4 # 0 THEN Failed("ValueError", i)
                      ELSE IF Len(bias_bytes) % 4 # 0 THEN Failed("ValueError", i)
                      ELSE IF Len(weight_bytes) \div 4 # count THEN Failed("ValueError", i)
                      ELSE load_mlp_bin_layers(f,
                               pos + 12 + Len(weight_bytes) + Len(bias_bytes),
                               i + 1, num_layers,
                               Append(layers,
                                   [weight |-> [shape |-> <<out_f, in_f>>,
                                                data |-> UnpackF32s(weight_bytes)],
                                    bias |-> UnpackF32s(bias_bytes),
                                    activation |-> act]))

\* load_mlp_bin without the magic check
load_mlp_bin_any_magic(f) ==
    LET head == Read(f, 0, 12)
    IN  IF Len(head) < 12 THEN Failed("struct.error", 0)
        ELSE IF UnpackU32(SubSeq(head, 5, 8)) # library_VERSION THEN Failed("ValueError", 0)
        ELSE load_mlp_bin_layers(f, 12, 0, UnpackU32(SubSeq(head, 9, 12)), << >>)

load_mlp_bin(f) ==
    LET head == Read(f, 0, 12)
    IN  IF Len(head) < 12 THEN Failed("struct.error", 0)
        ELSE IF UnpackU32(SubSeq(head, 1, 4)) # library_MAGIC THEN Failed("ValueError", 0)
        ELSE IF UnpackU32(SubSeq(head, 5, 8)) # library_VERSION THEN Failed("ValueError", 0)
        ELSE load_mlp_bin_layers(f, 12, 0, UnpackU32(SubSeq(head, 9, 12)), << >>)

\* tools/unicon_training/test_export.py test_export_round_trip: the test's
\* own reader of the exported file
RECURSIVE test_read_layers(_, _, _, _, _)
test_read_layers(f, pos, i, num_layers, layers) ==
    IF i >= num_layers
    THEN IF Len(f) - pos = 0 THEN Returned(layers, i) ELSE Failed("AssertionError", i)
    ELSE LET in_bytes == Read(f, pos, 4)
             out_bytes == Read(f, pos + 4, 4)
         IN  IF Len(in_bytes) < 4 \/ Len(out_bytes) < 4 THEN Failed("struct.error", i)
             ELSE LET in_dim == UnpackU32(in_bytes)
                      out_dim == UnpackU32(out_bytes)
                      count == BoundedMul(out_dim, in_dim, Len(f))
                      weight_bytes == Read(f, pos + 8, BoundedMul(count, 4, Len(f)))
                      bias_bytes == Read(f, pos + 8 + Len(weight_bytes),
                                         BoundedMul(out_dim, 4, Len(f)))
                  IN  IF Len(weight_bytes) % 4 # 0 THEN Failed("ValueError", i)
                      ELSE IF Len(weight_bytes) \div 4 # count THEN Failed("ValueError", i)
                      ELSE IF Len(bias_bytes) % 4 # 0 THEN Failed("ValueError", i)
                      ELSE test_read_layers(f,
                               pos + 8 + Len(weight_bytes) + Len(bias_bytes),
                               i + 1, num_layers,
                               Append(layers,
                                   [weight |-> [shape |-> <<out_dim, in_dim>>,
                                                data |-> UnpackF32s(weight_bytes)],
                                    bias |-> UnpackF32s(bias_bytes),
                                    activation |-> 0 - 1]))

test_read_back(f) ==
    LET magic_bytes == Read(f, 0, 4)
        count_bytes == Read(f, 4, 4)
    IN  IF Len(magic_bytes) < 4 THEN Failed("struct.error", 0)
        ELSE IF UnpackU32(magic_bytes) # unicon_MAGIC THEN Failed("AssertionError", 0)
        ELSE IF Len(count_bytes) < 4 THEN Failed("struct.error", 0)
        ELSE test_read_layers(f, 8, 0, UnpackU32(count_bytes), << >>)

----------------------------------------------------------------------------
(* The codec scenario: a writer produces the file, the file may be         *)
(* damaged on disk, a reader reads it.                                     *)

Dims == 0..MaxDim

HiddenLayerCounts == 0..(MaxLayers - 1)

Seeds == {42, 43}

\* the activation lists try_extract_* pass to extract_sequential_layers: all
\* Tanh (style MLP), all ReLU (main MLP), one None (mu head), ReLU then None
\* in the last place (encoder, HLC)
ActivationLists ==
    { [l \in 1..MaxLayers |-> ACTIVATION_TANH],
      [l \in 1..MaxLayers |-> ACTIVATION_RELU],
      <<ACTIVATION_NONE>>,
      [l \in 1..MaxLayers |-> IF l = MaxLayers THEN ACTIVATION_NONE ELSE ACTIVATION_RELU] }

\* the activations create_dummy_checkpoint gives the n layers of a network:
\* Tanh throughout, ReLU throughout, or ReLU with None on the last layer
DummyActivations(style, l, n) ==
    IF style = "tanh" THEN ACTIVATION_TANH
    ELSE IF style = "relu" \/ l < n THEN ACTIVATION_RELU
    ELSE ACTIVATION_NONE

\* the state_dict of a trained policy: per layer, the flat weight and bias data
CodecStateDict ==
    [weight |-> [l \in 1..MaxLayers |-> [k \in 1..(MaxDim * MaxDim) |-> WeightValue(l, k)]],
     bias |-> [l \in 1..MaxLayers |-> [k \in 1..MaxDim |-> BiasValue(l, k)]]]

NoTag == 0 - 1

\* what a writer was handed, in one shape for all writers
GivenDicts(layers) ==
    [l \in 1..Len(layers) |->
        [in_dim |-> layers[l].weight.shape[2], out_dim |-> layers[l].weight.shape[1],
         weights |-> layers[l].weight.data, biases |-> layers[l].bias,
         activation |-> layers[l].activation]]

GivenParams(layers) ==
    [l \in 1..Len(layers) |->
        [in_dim |-> layers[l].in_dim, out_dim |-> layers[l].out_dim,
         weights |-> layers[l].weights.data, biases |-> layers[l].biases,
         activation |-> NoTag]]

GivenRandom(layers) ==
    [l \in 1..Len(layers) |->
        [in_dim |-> layers[l].in_dim, out_dim |-> layers[l].out_dim,
         weights |-> layers[l].weights, biases |-> layers[l].biases,
         activation |-> NoTag]]

NoTamper == [kind |-> "none", n |-> 0]

NoResult == [status |-> "none", error |-> "", layers |-> << >>, parsed |-> 0]

CodecStart ==
    /\ stage = "start"
    /\ writer = "none"
    /\ written = << >>
    /\ file = << >>
    /\ tamper = NoTamper
    /\ reader = "none"
    /\ result = NoResult

CodecIdle ==
    /\ stage = "idle"
    /\ writer = "none"
    /\ written = << >>
    /\ file = << >>
    /\ tamper = NoTamper
    /\ reader = "none"
    /\ result = NoResult

CodecInit == CodecStart /\ FwdIdle /\ PolicyIdle /\ ObsIdle /\ PoseIdle

\* where a writer leaves the scenario: wrote is its [ok, bytes]
AfterWrite(wrote) == IF wrote.ok THEN "written" ELSE "write_failed"

\* calm_export.export_checkpoint: write_mlp_bin on layers extracted from a
\* checkpoint, activations from the caller's list.  The layers form a chain
\* of widths (skew 0), or every layer after the first takes a number of
\* inputs other than what the layer before it gives (skew 1).
WriteMlpBin ==
    \E n \in 0..MaxLayers : \E chain \in [1..(n + 1) -> Dims] : \E skew \in {0, 1} :
      \E acts \in ActivationLists :
        LET widths == [l \in 1..n |->
                          <<IF l > 1 THEN (chain[l] + skew) % (MaxDim + 1) ELSE chain[l],
                            chain[l + 1]>>]
            layers == extract_sequential_layers(
                          SequentialStateDict("a2c_network.actor_mlp.", widths),
                          "a2c_network.actor_mlp.", acts)
        IN  /\ stage = "start"
            /\ stage' = AfterWrite(write_mlp_bin(layers))
            /\ writer' = "write_mlp_bin"
            /\ written' = GivenDicts(layers)
            /\ file' = write_mlp_bin(layers).bytes
            /\ UNCHANGED <<tamper, reader, result, fwdVars, policyVars, obsVars, poseVars>>

\* calm_export.create_dummy_checkpoint: write_mlp_bin on a chain of layers
WriteDummyCheckpoint ==
    \E input_dim \in Dims, output_dim \in Dims, hidden_dim \in Dims :
    \E hidden_layers \in HiddenLayerCounts : \E style \in {"tanh", "relu", "relu_none"} :
        LET n == hidden_layers + 1
            layers == make_layers([l \in 1..n |->
                          << IF l = 1 THEN input_dim ELSE hidden_dim,
                             IF l = n THEN output_dim ELSE hidden_dim,
                             DummyActivations(style, l, n) >>])
        IN  /\ stage = "start"
            /\ stage' = AfterWrite(write_mlp_bin(layers))
            /\ writer' = "write_mlp_bin"
            /\ written' = GivenDicts(layers)
            /\ file' = write_mlp_bin(layers).bytes
            /\ UNCHANGED <<tamper, reader, result, fwdVars, policyVars, obsVars, poseVars>>

\* tools/ml/export.py export_policy on a policy
ExportPolicyML ==
    \E input_dim \in Dims, output_dim \in Dims, hidden_dim \in Dims :
    \E hidden_layers \in HiddenLayerCounts : \E activation_type \in {ACT_ELU, ACT_RELU} :
        LET policy == MLPPolicy(input_dim, output_dim, hidden_dim, hidden_layers, CodecStateDict)
            layers == get_layer_params(policy)
        IN  /\ stage = "start"
            /\ stage' = AfterWrite(ml_export_policy(layers, activation_type))
            /\ writer' = "ml_export_policy"
            /\ written' = GivenParams(layers)
            /\ file' = ml_export_policy(layers, activation_type).bytes
            /\ UNCHANGED <<tamper, reader, result, fwdVars, policyVars, obsVars, poseVars>>

\* tools/ml/export.py export_random_policy
ExportRandomPolicyML ==
    \E input_dim \in Dims, output_dim \in Dims, hidden_dim \in Dims :
    \E hidden_layers \in HiddenLayerCounts : \E activation_type \in {ACT_ELU, ACT_TANH} :
    \E seed \in Seeds :
        LET wrote == ml_export_random_policy(input_dim, output_dim, hidden_dim, hidden_layers,
                                             activation_type, seed)
            layers == random_layers(input_dim, output_dim, hidden_dim, hidden_layers, seed, 0)
        IN  /\ stage = "start"
            /\ stage' = AfterWrite(wrote)
            /\ writer' = "ml_export_random_policy"
            /\ written' = GivenRandom(layers)
            /\ file' = wrote.bytes
            /\ UNCHANGED <<tamper, reader, result, fwdVars, policyVars, obsVars, poseVars>>

\* tools/unicon_training/export.py export_policy on a policy
ExportPolicyUnicon ==
    \E obs_dim \in Dims, act_dim \in Dims, hidden_dim \in Dims :
    \E hidden_layers \in HiddenLayerCounts :
        LET policy == MLPPolicy(obs_dim, act_dim, hidden_dim, hidden_layers, CodecStateDict)
            layers == get_layer_params(policy)
        IN  /\ stage = "start"
            /\ stage' = AfterWrite(unicon_export_policy(layers))
            /\ writer' = "unicon_export_policy"
            /\ written' = GivenParams(layers)
            /\ file' = unicon_export_policy(layers).bytes
            /\ UNCHANGED <<tamper, reader, result, fwdVars, policyVars, obsVars, poseVars>>

\* tools/unicon_training/export.py export_random_policy
ExportRandomPolicyUnicon ==
    \E obs_dim \in Dims, act_dim \in Dims, hidden_dim \in Dims :
    \E hidden_layers \in HiddenLayerCounts : \E seed \in Seeds :
        LET wrote == unicon_export_random_policy(obs_dim, act_dim, hidden_dim, hidden_layers, seed)
            layers == random_layers(obs_dim, act_dim, hidden_dim, hidden_layers, seed, 0)
        IN  /\ stage = "start"
            /\ stage' = AfterWrite(wrote)
            /\ writer' = "unicon_export_random_policy"
            /\ written' = GivenRandom(layers)
            /\ file' = wrote.bytes
            /\ UNCHANGED <<tamper, reader, result, fwdVars, policyVars, obsVars, poseVars>>

\* the writers of the MLP1 variant
IsMLP1 == writer \in {"write_mlp_bin", "ml_export_policy", "ml_export_random_policy"}

TamperBytes == {0, 255}

\* N bytes are removed from the end of the file
Truncate ==
    \E n \in 1..MaxCut :
        /\ n <= Len(file)
        /\ stage = "written"
        /\ stage' = "tampered"
        /\ tamper' = [kind |-> "truncate", n |-> n]
        /\ file' = SubSeq(file, 1, Len(file) - n)
        /\ UNCHANGED <<writer, written, reader, result, fwdVars, policyVars, obsVars, poseVars>>

\* N bytes are appended to the file
AppendBytes ==
    \E n \in 1..MaxAppend : \E bytes \in [1..n -> TamperBytes] :
        /\ stage = "written"
        /\ stage' = "tampered"
        /\ tamper' = [kind |-> "append", n |-> n]
        /\ file' = file \o bytes
        /\ UNCHANGED <<writer, written, reader, result, fwdVars, policyVars, obsVars, poseVars>>

\* the lowest bit of one byte of the magic number is flipped
FlipMagic ==
    \E k \in 1..4 :
        /\ k <= Len(file)
        /\ stage = "written"
        /\ stage' = "tampered"
        /\ tamper' = [kind |-> "magic", n |-> k]
        /\ file' = [file EXCEPT ![k] = IF file[k] % 2 = 0 THEN file[k] + 1 ELSE file[k] - 1]
        /\ UNCHANGED <<writer, written, reader, result, fwdVars, policyVars, obsVars, poseVars>>

\* the version field of an MLP1 file is rewritten
SetVersion ==
    \E v \in {0, 2} :
        /\ IsMLP1
        /\ Len(file) >= 8
        /\ stage = "written"
        /\ stage' = "tampered"
        /\ tamper' = [kind |-> "version", n |-> v]
        /\ file' = SubSeq(file, 1, 4) \o PackU32(v) \o SubSeq(file, 9, Len(file))
        /\ UNCHANGED <<writer, written, reader, result, fwdVars, policyVars, obsVars, poseVars>>

VerifyWeightsML ==
    /\ stage \in {"written", "tampered"}
    /\ stage' = "read"
    /\ reader' = "ml_verify_weights"
    /\ result' = ml_verify_weights(file)
    /\ UNCHANGED <<writer, written, file, tamper, fwdVars, policyVars, obsVars, poseVars>>

VerifyWeightsUnicon ==
    /\ stage \in {"written", "tampered"}
    /\ stage' = "read"
    /\ reader' = "unicon_verify_weights"
    /\ result' = unicon_verify_weights(file)
    /\ UNCHANGED <<writer, written, file, tamper, fwdVars, policyVars, obsVars, poseVars>>

LoadMlpBin ==
    /\ stage \in {"written", "tampered"}
    /\ stage' = "read"
    /\ reader' = "load_mlp_bin"
    /\ result' = load_mlp_bin(file)
    /\ UNCHANGED <<writer, written, file, tamper, fwdVars, policyVars, obsVars, poseVars>>

TestReadBack ==
    /\ stage \in {"written", "tampered"}
    /\ stage' = "read"
    /\ reader' = "test_read_back"
    /\ result' = test_read_back(file)
    /\ UNCHANGED <<writer, written, file, tamper, fwdVars, policyVars, obsVars, poseVars>>

\* writers and readers, files intact, any layer list
NextCodec ==
    \/ WriteMlpBin
    \/ ExportPolicyML
    \/ ExportRandomPolicyML
    \/ ExportPolicyUnicon
    \/ ExportRandomPolicyUnicon
    \/ VerifyWeightsML
    \/ VerifyWeightsUnicon
    \/ LoadMlpBin
    \/ TestReadBack

SpecCodec == CodecInit /\ [][NextCodec]_vars

\* writers of network-shaped models, damage to the file, readers
NextFile ==
    \/ WriteDummyCheckpoint
    \/ ExportPolicyML
    \/ ExportRandomPolicyML
    \/ ExportPolicyUnicon
    \/ ExportRandomPolicyUnicon
    \/ Truncate
    \/ AppendBytes
    \/ FlipMagic
    \/ SetVersion
    \/ VerifyWeightsML
    \/ VerifyWeightsUnicon
    \/ LoadMlpBin

SpecFile == CodecInit /\ [][NextFile]_vars

----------------------------------------------------------------------------
(* Forward passes.  Here a number is an integer count of thousandths       *)
(* (Milli stands for 1.0).  A weight matrix holds whole numbers, so the    *)
(* product of a weight and an activation is again in thousandths; biases   *)
(* and activations are in thousandths.                                     *)

Milli == 10^3

\* tanh(x) and 1 - exp(-x) at x = 0, 1, 2, ..., in thousandths
TanhKnots == <<0, 762, 964, 995, 999, 1000>>
Expm1Knots == <<0, 632, 865, 950, 982, 993, 998, 999, 1000>>

\* at m >= 0, the piecewise-linear function through the knots, constant
\* after the last one
Interpolate(knots, m) ==
    LET k == m \div Milli
        r == m % Milli
    IN  IF k + 2 > Len(knots) THEN knots[Len(knots)]
        ELSE knots[k + 1] + ((knots[k + 2] - knots[k + 1]) * r) \div Milli

\* np.maximum(x, 0), np.tanh(x), np.where(x > 0, x, np.exp(x) - 1.0) and
\* nn.ELU() on one entry
np_maximum(v, floor) == IF v > floor THEN v ELSE floor
np_tanh(v) == IF v >= 0 THEN Interpolate(TanhKnots, v) ELSE 0 - Interpolate(TanhKnots, 0 - v)
np_where_exp(v) == IF v > 0 THEN v ELSE 0 - Interpolate(Expm1Knots, 0 - v)
nn_ELU(v) == IF v > 0 THEN v ELSE 0 - Interpolate(Expm1Knots, 0 - v)

Raised == [ok |-> FALSE, x |-> << >>]
Value(x) == [ok |-> TRUE, x |-> x]

RECURSIVE Dot(_, _, _, _)
Dot(w, o, x, i) == IF i = 0 THEN 0 ELSE At(w, o, i) * x[i] + Dot(w, o, x, i - 1)

\* w @ x + b for a matrix w, with numpy's broadcasting of the sum: a
\* ValueError when the shapes do not agree
MatVecAdd(w, x, b) ==
    LET out_f == w.shape[1]
        wx == [o \in 1..out_f |-> Dot(w, o, x, Len(x))]
    IN  IF w.shape[2] # Len(x) THEN Raised
        ELSE IF Len(b) = out_f THEN Value([o \in 1..out_f |-> wx[o] + b[o]])
        ELSE IF Len(b) = 1 THEN Value([o \in 1..out_f |-> wx[o] + b[1]])
        ELSE IF out_f = 1 THEN Value([o \in 1..Len(b) |-> wx[1] + b[o]])
        ELSE Raised

\* tools/calm_encode_library.py forward_mlp_numpy
RECURSIVE forward_mlp_numpy(_, _)
forward_mlp_numpy(layers, x) ==
    IF layers = << >> THEN Value(x)
    ELSE LET layer == Head(layers)
             y == MatVecAdd(layer.weight, x, layer.bias)
         IN  IF ~y.ok THEN Raised
             ELSE forward_mlp_numpy(Tail(layers),
                      IF layer.activation = library_ACTIVATION_RELU
                      THEN [k \in 1..Len(y.x) |-> np_maximum(y.x[k], 0)]
                      ELSE IF layer.activation = library_ACTIVATION_TANH
                      THEN [k \in 1..Len(y.x) |-> np_tanh(y.x[k])]
                      ELSE y.x)

\* MLPPolicy.forward: nn.Sequential applies the modules in order
RECURSIVE nn_Sequential(_, _)
nn_Sequential(network, x) ==
    IF network = << >> THEN Value(x)
    ELSE LET module == Head(network)
         IN  IF IsLinear(module)
             THEN LET y == MatVecAdd(module.weight, x, module.bias)
                  IN  IF ~y.ok THEN Raised ELSE nn_Sequential(Tail(network), y.x)
             ELSE nn_Sequential(Tail(network), [k \in 1..Len(x) |-> nn_ELU(x[k])])

\* test_forward_pass_matches: the loop over list(policy.get_layer_params())
\* from entry i (counted from 0) on
RECURSIVE manual_forward(_, _, _)
manual_forward(layers, i, x) ==
    IF i >= Len(layers) THEN Value(x)
    ELSE LET y == MatVecAdd(layers[i + 1].weights, x, layers[i + 1].biases)
         IN  IF ~y.ok THEN Raised
             ELSE manual_forward(layers, i + 1,
                      IF i < Len(layers) - 1
                      THEN [k \in 1..Len(y.x) |-> np_where_exp(y.x[k])]
                      ELSE y.x)

----------------------------------------------------------------------------
(* The inference scenario: a model is loaded from an MLP1 file and         *)
(* forward_mlp_numpy runs it on an input vector.                           *)

\* the activation tags tools/ml/export.py can store for a layer
StoredTags == {ACT_NONE, ACT_RELU, ACT_TANH, ACT_ELU}

\* weight matrices and biases of the loaded layers
FwdWeight(p, out_f, in_f) ==
    [shape |-> <<out_f, in_f>>,
     data |-> [k \in 1..(out_f * in_f) |->
                  IF p = 1 THEN 1 ELSE IF k % 2 = 1 THEN 0 - 1 ELSE 2]]

FwdBias(l, out_f) ==
    [o \in 1..out_f |-> IF l % 2 = 1 THEN 0 - (Milli \div 4) * o ELSE (Milli \div 2) * o]

FwdInputs(n) == [1..n -> {0 - Milli, Milli \div 2}]

FwdStart ==
    /\ fwd_stage = "start"
    /\ fwd_layers = << >>
    /\ fwd_x = << >>
    /\ fwd_out = Value(<< >>)

\* load_mlp_bin returned a chain of 1..MaxLayers layers
LoadModel ==
    /\ fwd_stage = "start"
    /\ \E n \in 1..MaxLayers :
        \E widths \in [1..(n + 1) -> 1..MaxDim], tags \in [1..n -> StoredTags],
           pats \in [1..n -> 1..2] :
            fwd_layers' = [l \in 1..n |->
                              [weight |-> FwdWeight(pats[l], widths[l + 1], widths[l]),
                               bias |-> FwdBias(l, widths[l + 1]),
                               activation |-> tags[l]]]
    /\ fwd_stage' = "loaded"
    /\ UNCHANGED <<fwd_x, fwd_out, codecVars, policyVars, obsVars, poseVars>>

ForwardMlpNumpy ==
    /\ fwd_stage = "loaded"
    /\ \E x \in FwdInputs(fwd_layers[1].weight.shape[2]) :
        /\ fwd_x' = x
        /\ fwd_out' = forward_mlp_numpy(fwd_layers, x)
    /\ fwd_stage' = "done"
    /\ UNCHANGED <<fwd_layers, codecVars, policyVars, obsVars, poseVars>>

NextFwd ==
    \/ LoadModel
    \/ ForwardMlpNumpy

FwdInit == CodecIdle /\ FwdStart /\ PolicyIdle /\ ObsIdle /\ PoseIdle

SpecFwd == FwdInit /\ [][NextFwd]_vars

----------------------------------------------------------------------------
(* The policy test: test_forward_pass_matches builds a policy, runs its    *)
(* forward pass and the loop over get_layer_params on the same input.      *)

PolicyPatterns == 1..3

\* a state dict for up to MaxLayers hidden layers and the output layer;
\* pattern 1 has the zero biases of _init_weights
PolicyStateDict(p) ==
    [weight |-> [l \in 1..(MaxLayers + 1) |-> [k \in 1..(MaxDim * MaxDim) |->
                    IF p = 1 THEN ((l + k) % 3) - 1
                    ELSE IF p = 2 THEN (IF (l + k) % 2 = 0 THEN 2 ELSE 0 - 1)
                    ELSE l]],
     bias |-> [l \in 1..(MaxLayers + 1) |-> [k \in 1..MaxDim |->
                    IF p = 1 THEN 0
                    ELSE IF p = 2 THEN 0 - (Milli \div 4) * l
                    ELSE (Milli \div 2) * k - (3 * Milli) \div 4]]]

PolicyStart ==
    /\ pol_stage = "start"
    /\ pol_network = << >>
    /\ pol_obs = << >>
    /\ pytorch_output = Value(<< >>)
    /\ manual_output = Value(<< >>)

CreatePolicy ==
    /\ pol_stage = "start"
    /\ \E input_dim \in 1..MaxDim, output_dim \in 1..MaxDim, hidden_dim \in 1..MaxDim,
          hidden_layers \in 0..MaxLayers, p \in PolicyPatterns :
        pol_network' = MLPPolicy(input_dim, output_dim, hidden_dim, hidden_layers,
                                 PolicyStateDict(p))
    /\ pol_stage' = "created"
    /\ UNCHANGED <<pol_obs, pytorch_output, manual_output, codecVars, fwdVars, obsVars, poseVars>>

TestForwardPassMatches ==
    /\ pol_stage = "created"
    /\ \E x \in FwdInputs(pol_network[1].in_features) :
        /\ pol_obs' = x
        /\ pytorch_output' = nn_Sequential(pol_network, x)
        /\ manual_output' = manual_forward(get_layer_params(pol_network), 0, x)
    /\ pol_stage' = "compared"
    /\ UNCHANGED <<pol_network, codecVars, fwdVars, obsVars, poseVars>>

NextPolicy ==
    \/ CreatePolicy
    \/ TestForwardPassMatches

PolicyInit == CodecIdle /\ FwdIdle /\ PolicyStart /\ ObsIdle /\ PoseIdle

SpecPolicy == PolicyInit /\ [][NextPolicy]_vars

----------------------------------------------------------------------------
(* tools/motion_dataset.py: the joint table and what is derived from it.   *)
(* Joint indices, DOF indices and array indices count from 0 as in the     *)
(* source; an array a of the source is the sequence whose entry i + 1 is   *)
(* a[i].                                                                   *)

\* (training_name, engine_bone_name, num_dofs, is_key_body)
HUMANOID_BONE_DEFS ==
    << <<"pelvis", "Hips", 3, FALSE>>,
       <<"abdomen", "Spine", 3, FALSE>>,
       <<"chest", "Spine1", 3, FALSE>>,
       <<"neck", "Neck", 3, FALSE>>,
       <<"head", "Head", 3, TRUE>>,
       <<"right_upper_arm", "RightArm", 3, FALSE>>,
       <<"right_lower_arm", "RightForeArm", 1, FALSE>>,
       <<"right_hand", "RightHand", 0, TRUE>>,
       <<"left_upper_arm", "LeftArm", 3, FALSE>>,
       <<"left_lower_arm", "LeftForeArm", 1, FALSE>>,
       <<"left_hand", "LeftHand", 0, TRUE>>,
       <<"right_thigh", "RightUpLeg", 3, FALSE>>,
       <<"right_shin", "RightLeg", 1, FALSE>>,
       <<"right_foot", "RightFoot", 3, TRUE>>,
       <<"left_thigh", "LeftUpLeg", 3, FALSE>>,
       <<"left_shin", "LeftLeg", 1, FALSE>>,
       <<"left_foot", "LeftFoot", 3, TRUE>> >>

\* sum(ndof for _, _, ndof, _ in defs) with the joints counted instead
TOTAL_DOFS_joint_count(defs) == Len(defs)

RECURSIVE TOTAL_DOFS(_)
TOTAL_DOFS(defs) ==
    IF defs = << >> THEN 0 ELSE Head(defs)[3] + TOTAL_DOFS(Tail(defs))

IsKeyBody(def) == def[4]
TrainingName(def) == def[1]

TRAINING_JOINT_NAMES(defs) == [j \in 1..Len(defs) |-> TrainingName(defs[j])]

KEY_BODY_NAMES(defs) ==
    LET keys == SelectSeq(defs, IsKeyBody)
    IN  [k \in 1..Len(keys) |-> TrainingName(keys[k])]

NUM_KEY_BODIES(defs) == Len(KEY_BODY_NAMES(defs))

\* OBS_DIM with one block of DOF entries
OBS_DIM_one_dof_block(defs) ==
    1 + 6 + 3 + 3 + TOTAL_DOFS(defs) + NUM_KEY_BODIES(defs) * 3

OBS_DIM(defs) ==
    1 + 6 + 3 + 3 + TOTAL_DOFS(defs) + TOTAL_DOFS(defs) + NUM_KEY_BODIES(defs) * 3

\* DOF_MAPPINGS with one entry, axis X, for every joint of the table
DOF_MAPPINGS_one_axis(defs) == [_ji \in 1..Len(defs) |-> <<_ji - 1, 0>>]

\* the loop that builds DOF_MAPPINGS, from joint _ji on: (joint, axis) for
\* the axes 0.._ndof-1 of each joint
RECURSIVE DOF_MAPPINGS_from(_, _)
DOF_MAPPINGS_from(defs, _ji) ==
    IF _ji >= Len(defs) THEN << >>
    ELSE [_ax \in 1..defs[_ji + 1][3] |-> <<_ji, _ax - 1>>] \o DOF_MAPPINGS_from(defs, _ji + 1)

DOF_MAPPINGS(defs) == DOF_MAPPINGS_from(defs, 0)

RECURSIVE KEY_BODY_INDICES_from(_, _)
KEY_BODY_INDICES_from(defs, i) ==
    IF i >= Len(defs) THEN << >>
    ELSE (IF defs[i + 1][4] THEN <<i>> ELSE << >>) \o KEY_BODY_INDICES_from(defs, i + 1)

KEY_BODY_INDICES(defs) == KEY_BODY_INDICES_from(defs, 0)

\* AMPObservationComputer.__init__
AMPObservationComputer(defs) ==
    [obs_dim |-> OBS_DIM(defs),
     dof_mappings |-> DOF_MAPPINGS(defs),
     key_body_indices |-> KEY_BODY_INDICES(defs),
     num_dofs |-> TOTAL_DOFS(defs)]

\* An entry of an observation names what was stored in it: the field, the
\* joint it was taken from (-1 for the root) and the component.
Entry(field, joint, axis) == [field |-> field, joint |-> joint, axis |-> axis]
Root == 0 - 1

\* np.zeros(n)
np_zeros(n) == [i \in 1..n |-> Entry("zero", Root, 0)]

\* the number of entries of the slice arr[first:first+n]
SliceLen(arr, first, n) ==
    LET lo == Min(first, Len(arr))
        hi == Min(first + n, Len(arr))
    IN  IF hi > lo THEN hi - lo ELSE 0

\* whether arr[first:first+n] = values broadcasts (a ValueError otherwise)
SliceFits(arr, first, n, values) ==
    Len(values) = SliceLen(arr, first, n) \/ Len(values) = 1

\* arr after arr[first:first+n] = values
SetSlice(arr, first, n, values) ==
    [i \in 1..Len(arr) |->
        IF i > first /\ i <= first + n
        THEN (IF Len(values) = 1 THEN values[1] ELSE values[i - first])
        ELSE arr[i]]

\* _extract_dof_positions: entry d is euler[axis] of joint ji, for
\* d, (ji, axis) in enumerate(dof_mappings); an IndexError when there are
\* more mappings than num_dofs
extract_fits(computer) == Len(computer.dof_mappings) <= computer.num_dofs

extract_dof_positions(computer, field) ==
    [d \in 1..computer.num_dofs |->
        IF d <= Len(computer.dof_mappings)
        THEN Entry(field, computer.dof_mappings[d][1], computer.dof_mappings[d][2])
        ELSE Entry("zero", Root, 0)]

----------------------------------------------------------------------------
(* The observation scenario: the module is loaded with a joint table, an   *)
(* AMPObservationComputer is constructed and compute_frame runs, one       *)
(* field group at a time.                                                  *)

DofCounts == {0, 1, 3}

\* the joint tables of up to MaxJoints joints, and the reference table
JointTables ==
    {HUMANOID_BONE_DEFS} \cup
    UNION {{[j \in 1..n |-> <<"joint", "Bone", t[j][1], t[j][2]>>] :
               t \in [1..n -> DofCounts \X BOOLEAN]} : n \in 0..MaxJoints}

ObsStart ==
    /\ bone_defs \in JointTables
    /\ self = AMPObservationComputer(bone_defs)
    /\ pc = "constructed"
    /\ obs = << >>
    /\ idx = 0
    /\ kb = 0
    /\ writes = << >>

\* obs = np.zeros(self.obs_dim); idx = 0
BeginFrame ==
    /\ pc \in {"constructed", "done"}
    /\ obs' = np_zeros(self.obs_dim)
    /\ idx' = 0
    /\ kb' = 0
    /\ writes' = << >>
    /\ pc' = "root_height"
    /\ UNCHANGED <<bone_defs, self, codecVars, fwdVars, policyVars, poseVars>>

\* 1) obs[idx] = root_pos[1]
WriteRootHeight ==
    /\ pc = "root_height"
    /\ IF idx < Len(obs)
       THEN /\ obs' = SetSlice(obs, idx, 1, <<Entry("root_h", Root, 1)>>)
            /\ writes' = Append(writes, <<"root_h", idx, idx>>)
            /\ idx' = idx + 1
            /\ pc' = "root_rot"
       ELSE /\ pc' = "IndexError"
            /\ UNCHANGED <<obs, writes, idx>>
    /\ UNCHANGED <<bone_defs, self, kb, codecVars, fwdVars, policyVars, poseVars>>

\* 2) obs[idx:idx + 6] = rot6d
WriteRootRotation ==
    /\ pc = "root_rot"
    /\ LET rot6d == [k \in 1..6 |-> Entry("rot6d", Root, k - 1)]
       IN  IF SliceFits(obs, idx, 6, rot6d)
           THEN /\ obs' = SetSlice(obs, idx, 6, rot6d)
                /\ writes' = Append(writes, <<"rot6d", idx, idx + 6 - 1>>)
                /\ idx' = idx + 6
                /\ pc' = "root_vel"
           ELSE /\ pc' = "ValueError"
                /\ UNCHANGED <<obs, writes, idx>>
    /\ UNCHANGED <<bone_defs, self, kb, codecVars, fwdVars, policyVars, poseVars>>

\* 3) obs[idx:idx + 3] = local_vel
WriteRootVelocity ==
    /\ pc = "root_vel"
    /\ LET local_vel == [k \in 1..3 |-> Entry("vel", Root, k - 1)]
       IN  IF SliceFits(obs, idx, 3, local_vel)
           THEN /\ obs' = SetSlice(obs, idx, 3, local_vel)
                /\ writes' = Append(writes, <<"vel", idx, idx + 3 - 1>>)
                /\ idx' = idx + 3
                /\ pc' = "root_ang_vel"
           ELSE /\ pc' = "ValueError"
                /\ UNCHANGED <<obs, writes, idx>>
    /\ UNCHANGED <<bone_defs, self, kb, codecVars, fwdVars, policyVars, poseVars>>

\* 4) obs[idx:idx + 3] = local_ang_vel
WriteRootAngularVelocity ==
    /\ pc = "root_ang_vel"
    /\ LET local_ang_vel == [k \in 1..3 |-> Entry("angvel", Root, k - 1)]
       IN  IF SliceFits(obs, idx, 3, local_ang_vel)
           THEN /\ obs' = SetSlice(obs, idx, 3, local_ang_vel)
                /\ writes' = Append(writes, <<"angvel", idx, idx + 3 - 1>>)
                /\ idx' = idx + 3
                /\ pc' = "dof_pos"
           ELSE /\ pc' = "ValueError"
                /\ UNCHANGED <<obs, writes, idx>>
    /\ UNCHANGED <<bone_defs, self, kb, codecVars, fwdVars, policyVars, poseVars>>

\* 5) obs[idx:idx + self.num_dofs] = dof_pos
WriteDofPositions ==
    /\ pc = "dof_pos"
    /\ LET dof_pos == extract_dof_positions(self, "dof_pos")
       IN  IF ~extract_fits(self)
           THEN /\ pc' = "IndexError"
                /\ UNCHANGED <<obs, writes, idx>>
           ELSE IF SliceFits(obs, idx, self.num_dofs, dof_pos)
           THEN /\ obs' = SetSlice(obs, idx, self.num_dofs, dof_pos)
                /\ writes' = Append(writes, <<"dof_pos", idx, idx + self.num_dofs - 1>>)
                /\ idx' = idx + self.num_dofs
                /\ pc' = "dof_vel"
           ELSE /\ pc' = "ValueError"
                /\ UNCHANGED <<obs, writes, idx>>
    /\ UNCHANGED <<bone_defs, self, kb, codecVars, fwdVars, policyVars, poseVars>>

\* 6) obs[idx:idx + self.num_dofs] = dof_vel
WriteDofVelocities ==
    /\ pc = "dof_vel"
    /\ LET dof_vel == extract_dof_positions(self, "dof_vel")
       IN  IF SliceFits(obs, idx, self.num_dofs, dof_vel)
           THEN /\ obs' = SetSlice(obs, idx, self.num_dofs, dof_vel)
                /\ writes' = Append(writes, <<"dof_vel", idx, idx + self.num_dofs - 1>>)
                /\ idx' = idx + self.num_dofs
                /\ pc' = "key_body"
           ELSE /\ pc' = "ValueError"
                /\ UNCHANGED <<obs, writes, idx>>
    /\ UNCHANGED <<bone_defs, self, kb, codecVars, fwdVars, policyVars, poseVars>>

\* 7) one turn of the loop over self.key_body_indices:
\* obs[idx:idx + 3] = local_pos
WriteKeyBody ==
    /\ pc = "key_body"
    /\ kb < Len(self.key_body_indices)
    /\ LET kb_ji == self.key_body_indices[kb + 1]
           local_pos == [k \in 1..3 |-> Entry("key_body", kb_ji, k - 1)]
       IN  IF SliceFits(obs, idx, 3, local_pos)
           THEN /\ obs' = SetSlice(obs, idx, 3, local_pos)
                /\ writes' = Append(writes, <<"key_body", idx, idx + 3 - 1>>)
                /\ idx' = idx + 3
                /\ kb' = kb + 1
                /\ pc' = "key_body"
           ELSE /\ pc' = "ValueError"
                /\ UNCHANGED <<obs, writes, idx, kb>>
    /\ UNCHANGED <<bone_defs, self, codecVars, fwdVars, policyVars, poseVars>>

\* assert idx == self.obs_dim; return obs
AssertSize ==
    /\ pc = "key_body"
    /\ kb >= Len(self.key_body_indices)
    /\ pc' = IF idx = self.obs_dim THEN "done" ELSE "AssertionError"
    /\ UNCHANGED <<bone_defs, self, obs, idx, kb, writes, codecVars, fwdVars, policyVars, poseVars>>

NextObs ==
    \/ BeginFrame
    \/ WriteRootHeight
    \/ WriteRootRotation
    \/ WriteRootVelocity
    \/ WriteRootAngularVelocity
    \/ WriteDofPositions
    \/ WriteDofVelocities
    \/ WriteKeyBody
    \/ AssertSize

ObsInit == CodecIdle /\ FwdIdle /\ PolicyIdle /\ ObsStart /\ PoseIdle

SpecObs == ObsInit /\ [][NextObs]_vars

----------------------------------------------------------------------------
(* The numbers of the pose mathematics.  A float is modelled by the real   *)
(* number it approximates, and a real number is <<a, b, d>>, standing for  *)
(* (a + b * sqrt(2)) / d with d > 0, in lowest terms.  These numbers are   *)
(* closed under +, -, * and /, and hold the sines and cosines of the       *)
(* multiples of 45 degrees exactly.  An angle is such a number too: its    *)
(* measure in degrees (the source's radians times 180/pi).                 *)

\* a number has a positive denominator, a vector its n components
IsNumber(x) == x[3] > 0
IsVector(v, n) == Len(v) = n

\* the element of a set of one element: The({e : v \in {d}}) is e with v
\* standing for the value of d
The(S) == CHOOSE r \in S : TRUE

IntAbs(n) == IF n < 0 THEN 0 - n ELSE n

Sgn(n) == IF n > 0 THEN 1 ELSE IF n < 0 THEN 0 - 1 ELSE 0

RECURSIVE GCD(_, _)
GCD(m, n) == IF n = 0 THEN m ELSE GCD(n, m % n)

\* (a + b * sqrt(2)) / d in lowest terms
Num(a, b, d) ==
    CASE d # 0 ->
        IF d = 1 THEN <<a, b, 1>>
        ELSE The({<<(s * a) \div g, (s * b) \div g, (s * d) \div g>> :
                     g \in {GCD(GCD(IntAbs(a), IntAbs(b)), IntAbs(d))}, s \in {Sgn(d)}})

Rat(n, d) == Num(n, 0, d)
Whole(n) == <<n, 0, 1>>
Zero == <<0, 0, 1>>
One == <<1, 0, 1>>
Two == <<2, 0, 1>>
HalfSqrt2 == <<0, 1, 2>>

\* x + y, over the least common denominator
Add(x, y) ==
    CASE IsNumber(x) /\ IsNumber(y) ->
        The({Num(x[1] * mx + y[1] * my, x[2] * mx + y[2] * my, x[3] * mx) :
                mx \in {y[3] \div GCD(x[3], y[3])}, my \in {x[3] \div GCD(x[3], y[3])}})

Neg(x) == <<0 - x[1], 0 - x[2], x[3]>>

Sub(x, y) == Add(x, Neg(y))

\* (a1 + b1 * sqrt(2)) / d1 times (a2 + b2 * sqrt(2)) / d2
MulParts(a1, b1, d1, a2, b2, d2) ==
    Num(a1 * a2 + 2 * b1 * b2, a1 * b2 + b1 * a2, d1 * d2)

\* x * y, with the factor g1 common to the numerator of x and the
\* denominator of y, and g2 the other way round, taken out before the
\* products
MulReduced(x, y, g1, g2) ==
    MulParts(x[1] \div g1, x[2] \div g1, x[3] \div g2, y[1] \div g2, y[2] \div g2, y[3] \div g1)

Mul(x, y) ==
    CASE IsNumber(x) /\ IsNumber(y) ->
        IF x = Zero \/ y = Zero THEN Zero
        ELSE MulReduced(x, y, GCD(GCD(IntAbs(x[1]), IntAbs(x[2])), y[3]),
                              GCD(GCD(IntAbs(y[1]), IntAbs(y[2])), x[3]))

\* 1 / x for x # 0
Inv(x) ==
    CASE IsNumber(x) ->
        IF x[2] = 0 THEN Num(x[3], 0, x[1])
        ELSE Num(x[1] * x[3], 0 - x[2] * x[3], x[1] * x[1] - 2 * x[2] * x[2])

Div(x, y) == Mul(x, Inv(y))

\* the sign of a + b * sqrt(2) from the signs sa, sb and the absolute
\* values a, b: when the two pull in opposite directions, a is compared
\* with b * sqrt(2), between 1.414 b and 1.415 b
SignParts(sa, sb, a, b) ==
    IF sb = 0 THEN sa
    ELSE IF sa = 0 \/ sa = sb THEN sb
    ELSE IF (a \div 1000) * 1000 >= (b \div 1000 + 1) * 1415 THEN sa
    ELSE IF (a \div 1000 + 1) * 1000 <= (b \div 1000) * 1414 THEN sb
    ELSE IF a * a > 2 * b * b THEN sa
    ELSE sb

Sign(x) ==
    CASE IsNumber(x) -> SignParts(Sgn(x[1]), Sgn(x[2]), IntAbs(x[1]), IntAbs(x[2]))

Less(x, y) == Sign(Sub(x, y)) < 0
LessEq(x, y) == Sign(Sub(x, y)) <= 0

\* v with the sign s
SignedBy(v, s) == IF s < 0 THEN Neg(v) ELSE v

abs(x) == SignedBy(x, Sign(x))

IsSquare(n) == n >= 0 /\ \E r \in 0..Min(n, 46340) : r * r = n
ISqrt(n) == CHOOSE r \in 0..Min(n, 46340) : r * r = n

\* the numbers whose square root is again a number of the model: the
\* rationals p with p or 2p the square of a rational
HasSqrt(x) ==
    /\ x[2] = 0
    /\ x[1] >= 0
    /\ IsSquare(x[1] * x[3]) \/ IsSquare(2 * x[1] * x[3])

\* math.sqrt
sqrt(x) ==
    CASE IsNumber(x) ->
    IF IsSquare(x[1] * x[3]) THEN Num(ISqrt(x[1] * x[3]), 0, x[3])
    ELSE Num(0, ISqrt(2 * x[1] * x[3]), 2 * x[3])

\* an angle that is a whole number of eighths of a turn
IsOctant(a) == a[2] = 0 /\ a[3] = 1 /\ a[1] % 45 = 0

\* math.sin and math.cos of a number of eighths of a turn
SinOctant(k) ==
    IF k % 4 = 0 THEN Zero
    ELSE IF k % 8 = 2 THEN One
    ELSE IF k % 8 = 6 THEN <<0 - 1, 0, 1>>
    ELSE IF k % 8 < 4 THEN HalfSqrt2
    ELSE <<0, 0 - 1, 2>>

math_sin(a) == CASE IsOctant(a) -> SinOctant(a[1] \div 45)

math_cos(a) == CASE IsOctant(a) -> SinOctant(a[1] \div 45 + 2)

\* the inverse functions between their exact values: the straight line
\* through the values at 0, 1/4, 1/2, 3/4 and 1, in thousandths of a degree
AtanKnots == <<0, 14036, 26565, 36870, 45000>>
AsinKnots == <<0, 14478, 30000, 48590, 90000>>

\* the quarter of [0, 1] that holds t: 0 below 1/4, 3 from 3/4 on
Quarter(t) == Cardinality({j \in 1..3 : LessEq(Rat(j, 4), t)})

\* the line through the knots k and k + 1 (counted from 0) at t
BetweenAt(knots, t, k) ==
    Add(Rat(knots[k + 1], 1000),
        Mul(Rat(knots[k + 2] - knots[k + 1], 1000), Sub(Mul(Whole(4), t), Whole(k))))

\* the line through the knots at t in [0, 1]
Between(knots, t) == CASE IsNumber(t) -> BetweenAt(knots, t, Quarter(t))

\* atan(t) in degrees for 0 <= t <= 1
AtanUnit(t) ==
    IF t = Zero THEN Zero
    ELSE IF t = One THEN Whole(45)
    ELSE Between(AtanKnots, t)

\* atan(lo / hi) for 0 < lo <= hi, and its complement when the two were
\* exchanged
AtanOrdered(u, exchanged) == IF exchanged THEN Sub(Whole(90), u) ELSE u

AtanOfOrder(ay, ax, le) ==
    AtanOrdered(AtanUnit(Div(IF le THEN ay ELSE ax, IF le THEN ax ELSE ay)), ~le)

\* atan2 in the first quadrant, ay >= 0 and ax >= 0
AtanFirst(ay, ax) ==
    IF ay = Zero THEN Zero
    ELSE IF ax = Zero THEN Whole(90)
    ELSE AtanOfOrder(ay, ax, LessEq(ay, ax))

\* the angle of the quadrant with the signs sy, sx from the first-quadrant
\* angle
AtanQuadrant(first, sy, sx) ==
    SignedBy(IF sx < 0 THEN Sub(Whole(180), first) ELSE first, sy)

\* math.atan2(y, x), in degrees; atan2(0, 0) is 0
math_atan2(y, x) ==
    CASE IsNumber(y) /\ IsNumber(x) ->
        AtanQuadrant(AtanFirst(abs(y), abs(x)), Sign(y), Sign(x))

\* math.asin(x), in degrees, for -1 <= x <= 1 (a ValueError otherwise)
asin_defined(x) == LessEq(abs(x), One)

\* asin for 0 <= ax <= 1
AsinFirst(ax) ==
    IF ax = Zero THEN Zero
    ELSE IF ax = <<1, 0, 2>> THEN Whole(30)
    ELSE IF ax = HalfSqrt2 THEN Whole(45)
    ELSE IF ax = One THEN Whole(90)
    ELSE Between(AsinKnots, ax)

math_asin(x) == CASE IsNumber(x) -> SignedBy(AsinFirst(abs(x)), Sign(x))

\* math.acos(x), in degrees, for -1 <= x <= 1
math_acos(x) == CASE IsNumber(x) -> Sub(Whole(90), math_asin(x))

\* math.copysign(m, s) for s # 0
math_copysign(m, s) == SignedBy(abs(m), Sign(s))

----------------------------------------------------------------------------
(* tools/motion_dataset.py: quaternion and rotation mathematics.  A        *)
(* quaternion is <<x, y, z, w>>, a vector <<x, y, z>>, a matrix the        *)
(* sequence of its rows; m[r, c] of the source is m[r + 1][c + 1].         *)

quat_identity == <<Zero, Zero, Zero, One>>

\* Hamilton product q1 * q2
quat_multiply(q1, q2) ==
    CASE IsVector(q1, 4) /\ IsVector(q2, 4) ->
    LET x1 == q1[1]
        y1 == q1[2]
        z1 == q1[3]
        w1 == q1[4]
        x2 == q2[1]
        y2 == q2[2]
        z2 == q2[3]
        w2 == q2[4]
    IN  <<Sub(Add(Add(Mul(w1, x2), Mul(x1, w2)), Mul(y1, z2)), Mul(z1, y2)),
          Add(Add(Sub(Mul(w1, y2), Mul(x1, z2)), Mul(y1, w2)), Mul(z1, x2)),
          Add(Sub(Add(Mul(w1, z2), Mul(x1, y2)), Mul(y1, x2)), Mul(z1, w2)),
          Sub(Sub(Sub(Mul(w1, w2), Mul(x1, x2)), Mul(y1, y2)), Mul(z1, z2))>>

quat_inverse(q) == <<Neg(q[1]), Neg(q[2]), Neg(q[3]), q[4]>>

\* x.dot(x)
RECURSIVE SumSquares(_)
SumSquares(v) ==
    IF v = << >> THEN Zero ELSE Add(Mul(Head(v), Head(v)), SumSquares(Tail(v)))

\* whether 0 <= x < c * 10^j, for the numbers between 10^-9 and 10^9 the
\* model computes with and 1 <= c < 10
BelowPow10(x, c, j) ==
    IF x = Zero \/ j > 9 THEN TRUE
    ELSE IF j < 0 - 9 THEN FALSE
    ELSE Less(x, Mul(c, IF j >= 0 THEN Whole(10^j) ELSE <<1, 0, 10^(0 - j)>>))

\* np.linalg.norm of the float64 vector v * 10^e, as [kind, n]: the sum of
\* squares is inf above the largest float64 (1.7977e308) and 0 below half
\* the smallest (2.5e-324); the norm is n * 10^e otherwise
NormOfSquares(sq, e) ==
    IF sq = Zero THEN [kind |-> "zero", n |-> Zero]
    ELSE IF ~BelowPow10(sq, <<17977, 0, 10000>>, 308 - 2 * e) THEN [kind |-> "inf", n |-> Zero]
    ELSE IF BelowPow10(sq, <<5, 0, 2>>, 0 - 324 - 2 * e) THEN [kind |-> "zero", n |-> Zero]
    ELSE [kind |-> "finite", n |-> sqrt(sq)]

np_linalg_norm(v, e) == CASE IsVector(v, Len(v)) -> NormOfSquares(SumSquares(v), e)

\* quat_normalize of the float64 quaternion q * 10^e: identity below norm
\* 1e-12, q / n otherwise (all zero when n is inf)
DivideByNorm(q, e, norm) ==
    IF norm.kind = "zero" THEN quat_identity
    ELSE IF norm.kind = "inf" THEN <<Zero, Zero, Zero, Zero>>
    ELSE IF BelowPow10(norm.n, One, 0 - 12 - e) THEN quat_identity
    ELSE The({<<Mul(q[1], r), Mul(q[2], r), Mul(q[3], r), Mul(q[4], r)>> : r \in {Inv(norm.n)}})

quat_normalize_float64(q, e) == CASE IsVector(q, 4) -> DivideByNorm(q, e, np_linalg_norm(q, e))

\* quat_normalize on a quaternion of ordinary magnitude
quat_normalize(q) == quat_normalize_float64(q, 0)

\* whether the model can hold the norm of q
NormIsExact(q) == HasSqrt(SumSquares(q))

\* quaternion -> 3x3 rotation matrix, M[row][col]
Mat3OfProducts(xx, xy, xz, yy, yz, zz, wx, wy, wz) ==
    << <<Sub(One, Add(yy, zz)), Sub(xy, wz), Add(xz, wy)>>,
       <<Add(xy, wz), Sub(One, Add(xx, zz)), Sub(yz, wx)>>,
       <<Sub(xz, wy), Add(yz, wx), Sub(One, Add(xx, yy))>> >>

Mat3OfDoubles(x, y, z, w, x2, y2, z2) ==
    Mat3OfProducts(Mul(x, x2), Mul(x, y2), Mul(x, z2), Mul(y, y2), Mul(y, z2), Mul(z, z2),
                   Mul(w, x2), Mul(w, y2), Mul(w, z2))

quat_to_mat3(q) ==
    CASE IsVector(q, 4) ->
        Mat3OfDoubles(q[1], q[2], q[3], q[4], Mul(q[1], Two), Mul(q[2], Two), Mul(q[3], Two))

\* m @ v
RowDot(row, v) == CASE IsVector(row, 3) -> Add(Add(Mul(row[1], v[1]), Mul(row[2], v[2])), Mul(row[3], v[3]))

MatVec(m, v) == CASE IsVector(m, 3) /\ IsVector(v, 3) -> <<RowDot(m[1], v), RowDot(m[2], v), RowDot(m[3], v)>>

quat_rotate_vec3(q, v) == MatVec(quat_to_mat3(q), v)

\* quat_from_axis_angle for an axis of norm 0 or 1
AxisAngleOfHalf(axis, half, n) ==
    IF n.kind = "zero" THEN quat_identity
    ELSE The({<<Mul(Mul(axis[1], r), s), Mul(Mul(axis[2], r), s), Mul(Mul(axis[3], r), s), math_cos(half)>> :
                 r \in {Inv(n.n)}, s \in {math_sin(half)}})

quat_from_axis_angle(axis, angle) ==
    CASE IsVector(axis, 3) /\ IsNumber(angle) ->
        AxisAngleOfHalf(axis, Mul(angle, <<1, 0, 2>>), np_linalg_norm(axis, 0))

\* atan2(fwd.x, fwd.z) of the forward vector q * (0, 0, 1)
HeadingOfForward(forward) == math_atan2(forward[1], forward[3])

get_heading_angle(q) ==
    CASE IsVector(q, 4) -> HeadingOfForward(quat_rotate_vec3(q, <<Zero, Zero, One>>))

\* angleAxis(-heading, Y) * q
remove_heading(q) ==
    CASE IsVector(q, 4) ->
    LET heading == get_heading_angle(q)
        heading_quat == quat_from_axis_angle(<<Zero, One, Zero>>, Neg(heading))
    IN  quat_normalize(quat_multiply(heading_quat, q))

\* the first two columns of the rotation matrix
FirstTwoColumns(m) ==
    LET col0 == <<m[1][1], m[2][1], m[3][1]>>
        col1 == <<m[1][2], m[2][2], m[3][2]>>
    IN  <<col0[1], col0[2], col0[3], col1[1], col1[2], col1[3]>>

quat_to_tan_norm_6d(q) == CASE IsVector(q, 4) -> FirstTwoColumns(quat_to_mat3(q))

\* 0.99999, the start of the gimbal-lock branch
GimbalThreshold == <<99999, 0, 100000>>

\* whether mat3_to_euler_xyz raises: math.asin outside [-1, 1]
mat3_to_euler_xyz_raises(m) ==
    Less(abs(m[3][1]), GimbalThreshold) /\ ~asin_defined(m[3][1])

\* mat3_to_euler_xyz with the threshold itself left to the general branch
mat3_to_euler_xyz_inclusive(m) ==
    LET sy == m[3][1]
    IN  IF LessEq(abs(sy), GimbalThreshold)
        THEN <<math_atan2(Neg(m[3][2]), m[3][3]),
               math_asin(sy),
               math_atan2(Neg(m[2][1]), m[1][1])>>
        ELSE <<math_atan2(m[2][3], m[2][2]),
               math_copysign(Whole(90), sy),
               Zero>>

\* mat3_to_euler_xyz: <<x, y, z>> in degrees
mat3_to_euler_xyz(m) ==
    CASE IsVector(m, 3) ->
    LET sy == m[3][1]
    IN  IF Less(abs(sy), GimbalThreshold)
        THEN <<math_atan2(Neg(m[3][2]), m[3][3]),
               math_asin(sy),
               math_atan2(Neg(m[2][1]), m[1][1])>>
        ELSE <<math_atan2(m[2][3], m[2][2]),
               math_copysign(Whole(90), sy),
               Zero>>

\* rotate_to_heading_frame with the x and z results exchanged
rotate_to_heading_frame_exchanged(vec, heading_angle) ==
    LET cosH == math_cos(Neg(heading_angle))
        sinH == math_sin(Neg(heading_angle))
    IN  <<Add(Mul(Neg(sinH), vec[1]), Mul(cosH, vec[3])),
          vec[2],
          Add(Mul(cosH, vec[1]), Mul(sinH, vec[3]))>>

\* world-space vector into the heading frame
rotate_to_heading_frame(vec, heading_angle) ==
    CASE IsVector(vec, 3) /\ IsNumber(heading_angle) ->
    LET cosH == math_cos(Neg(heading_angle))
        sinH == math_sin(Neg(heading_angle))
    IN  <<Add(Mul(cosH, vec[1]), Mul(sinH, vec[3])),
          vec[2],
          Add(Mul(Neg(sinH), vec[1]), Mul(cosH, vec[3]))>>

----------------------------------------------------------------------------
(* tools/motion_dataset.py: AMPObservationComputer.compute_frame on        *)
(* values.  Angles are in degrees, so the DOF positions and the angular    *)
(* velocity are the source's values times 180/pi.                          *)

\* an argument left at None
None == <<"None">>

\* the array that holds the elements of f, each computed once
ndarray(f) == f \o << >>

\* np.zeros(n, dtype=np.float64)
np_zeros_float64(n) == ndarray([i \in 1..n |-> Zero])

\* a - b with b left out
VecSub_minuend(a, b) == a

\* a - b, v * s and v / s on arrays
VecSub(a, b) == ndarray([k \in 1..Len(a) |-> Sub(a[k], b[k])])
VecScale(v, s) == ndarray([k \in 1..Len(v) |-> Mul(v[k], s)])
VecDiv(v, s) == ndarray([k \in 1..Len(v) |-> Div(v[k], s)])

\* np.clip(x, lo, hi)
np_clip(x, lo, hi) == CASE IsNumber(x) -> IF Less(x, lo) THEN lo ELSE IF Less(hi, x) THEN hi ELSE x

\* whether _extract_dof_positions raises IndexError: a mapping past
\* num_dofs, or a joint that joint_local_rots does not have
_extract_dof_positions_raises(computer, joint_local_rots) ==
    \/ ~extract_fits(computer)
    \/ \E d \in 1..Len(computer.dof_mappings) : computer.dof_mappings[d][1] >= Len(joint_local_rots)

\* _extract_dof_positions: dof_pos[d] = euler[axis] of joint ji
_extract_dof_positions(computer, joint_local_rots) ==
    ndarray([d \in 1..computer.num_dofs |->
        IF d <= Len(computer.dof_mappings)
        THEN LET ji == computer.dof_mappings[d][1]
                 axis == computer.dof_mappings[d][2]
                 q == quat_normalize(joint_local_rots[ji + 1])
                 m == quat_to_mat3(q)
                 euler == mat3_to_euler_xyz(m)
             IN  euler[axis + 1]
        ELSE Zero])

\* obs[idx] = value; idx += 1 (an IndexError past the end)
SetItem(st, value) ==
    IF st.raised THEN st
    ELSE IF st.idx < Len(st.obs)
    THEN [raised |-> FALSE, obs |-> ndarray(SetSlice(st.obs, st.idx, 1, <<value>>)), idx |-> st.idx + 1]
    ELSE [raised |-> TRUE, obs |-> st.obs, idx |-> st.idx]

\* obs[idx:idx + n] = values; idx += n (a ValueError when the shapes differ)
SetBlock(st, n, values) ==
    IF st.raised THEN st
    ELSE IF SliceFits(st.obs, st.idx, n, values)
    THEN [raised |-> FALSE, obs |-> ndarray(SetSlice(st.obs, st.idx, n, values)), idx |-> st.idx + n]
    ELSE [raised |-> TRUE, obs |-> st.obs, idx |-> st.idx]

\* for kb_ji in self.key_body_indices: obs[idx:idx + 3] = local_pos; idx += 3
RECURSIVE SetKeyBodies(_, _, _, _, _)
SetKeyBodies(st, indices, joint_global_pos, root_pos, heading_angle) ==
    IF indices = << >> \/ st.raised THEN st
    ELSE IF Head(indices) >= Len(joint_global_pos)
    THEN [raised |-> TRUE, obs |-> st.obs, idx |-> st.idx]
    ELSE LET world_pos == joint_global_pos[Head(indices) + 1]
             rel_pos == VecSub(world_pos, root_pos)
             local_pos == rotate_to_heading_frame(rel_pos, heading_angle)
         IN  SetKeyBodies(SetBlock(st, 3, local_pos), Tail(indices), joint_global_pos, root_pos, heading_angle)

\* the root angular velocity of step 4, in the world frame: from the
\* rotation axis and angle of delta_rot
AngVelOfAxis(delta_rot, angle, sin_half, dt) ==
    CASE IsVector(delta_rot, 4) /\ IsNumber(angle) /\ IsNumber(sin_half) ->
        VecScale(IF Less(<<1, 0, 10^6>>, sin_half)
                 THEN VecDiv(<<delta_rot[1], delta_rot[2], delta_rot[3]>>, sin_half)
                 ELSE <<Zero, One, Zero>>,
                 Div(angle, dt))

AngVelOfClamped(delta_rot, w_clamped, dt) ==
    AngVelOfAxis(delta_rot, Mul(Two, math_acos(w_clamped)),
                 sqrt(Sub(One, Mul(w_clamped, w_clamped))), dt)

AngVelOfDelta(delta_rot, dt) ==
    AngVelOfClamped(delta_rot, np_clip(delta_rot[4], <<0 - 1, 0, 1>>, One), dt)

ang_vel_world(root_rot, prev_root_rot_arg, dt) ==
    AngVelOfDelta(quat_normalize(quat_multiply(root_rot, quat_inverse(quat_normalize(prev_root_rot_arg)))), dt)

\* has_prev, with a previous frame counted for any dt but 0
has_prev_nonzero_dt(prev_root_pos, prev_root_rot, dt) ==
    prev_root_pos # None /\ prev_root_rot # None /\ Sign(dt) # 0

\* has_prev = (prev_root_pos is not None and prev_root_rot is not None and dt > 0)
has_prev(prev_root_pos, prev_root_rot, dt) ==
    prev_root_pos # None /\ prev_root_rot # None /\ Sign(dt) > 0

\* an exception leaves the frame unfinished
RaiseIn(st) == [raised |-> TRUE, obs |-> st.obs, idx |-> st.idx]

\* 3) the root velocity in the heading frame
local_vel(frame_has_prev, root_pos, prev_root_pos, dt, heading_angle) ==
    IF frame_has_prev
    THEN rotate_to_heading_frame(VecDiv(VecSub(root_pos, prev_root_pos), dt), heading_angle)
    ELSE np_zeros_float64(3)

\* 4) the root angular velocity in the heading frame
local_ang_vel(frame_has_prev, root_rot, prev_root_rot, dt, heading_angle) ==
    IF frame_has_prev
    THEN rotate_to_heading_frame(ang_vel_world(root_rot, prev_root_rot, dt), heading_angle)
    ELSE np_zeros_float64(3)

\* 5) obs[idx:idx + num_dofs] = dof_pos
SetDofPositions(st, computer, joint_local_rots, dof_pos) ==
    IF st.raised THEN st
    ELSE IF _extract_dof_positions_raises(computer, joint_local_rots) THEN RaiseIn(st)
    ELSE SetBlock(st, computer.num_dofs, dof_pos)

\* 6) obs[idx:idx + num_dofs] = dof_vel
SetDofVelocities(st, computer, has_prev_dofs, prev_joint_local_rots, dof_pos, dt) ==
    IF st.raised THEN st
    ELSE IF ~has_prev_dofs THEN SetBlock(st, computer.num_dofs, np_zeros_float64(computer.num_dofs))
    ELSE IF _extract_dof_positions_raises(computer, prev_joint_local_rots) THEN RaiseIn(st)
    ELSE SetBlock(st, computer.num_dofs,
                  VecDiv(VecSub(dof_pos, _extract_dof_positions(computer, prev_joint_local_rots)), dt))

\* return obs, after assert idx == self.obs_dim
FrameResult(st, computer) ==
    IF st.raised \/ st.idx # computer.obs_dim
    THEN [raised |-> TRUE, obs |-> << >>]
    ELSE [raised |-> FALSE, obs |-> st.obs]

\* steps 1 to 7 of compute_frame, given has_prev, the heading angle and the
\* DOF positions of the frame
FrameSteps(computer, root_pos, root_rot, joint_local_rots, joint_global_pos, prev_root_pos, prev_root_rot, prev_joint_local_rots, dt, frame_has_prev, heading_angle, dof_pos) ==
    SetKeyBodies(
        SetDofVelocities(
            SetDofPositions(
                SetBlock(
                    SetBlock(
                        SetBlock(
                            SetItem([raised |-> FALSE, obs |-> np_zeros_float64(computer.obs_dim), idx |-> 0],
                                    root_pos[2]),
                            6, quat_to_tan_norm_6d(remove_heading(root_rot))),
                        3, local_vel(frame_has_prev, root_pos, prev_root_pos, dt, heading_angle)),
                    3, local_ang_vel(frame_has_prev, root_rot, prev_root_rot, dt, heading_angle)),
                computer, joint_local_rots, dof_pos),
            computer, frame_has_prev /\ prev_joint_local_rots # None, prev_joint_local_rots, dof_pos, dt),
        computer.key_body_indices, joint_global_pos, root_pos, heading_angle)

\* compute_frame on the normalised root rotation
FrameOfRoot(computer, root_pos, root_rot, joint_local_rots, joint_global_pos, prev_root_pos, prev_root_rot, prev_joint_local_rots, dt) ==
    FrameResult(
        FrameSteps(computer, root_pos, root_rot, joint_local_rots, joint_global_pos,
                   prev_root_pos, prev_root_rot, prev_joint_local_rots, dt,
                   has_prev(prev_root_pos, prev_root_rot, dt),
                   get_heading_angle(root_rot),
                   _extract_dof_positions(computer, joint_local_rots)),
        computer)

\* compute_frame: [raised, obs]
compute_frame(computer, root_pos, root_rot_arg, joint_local_rots, joint_global_pos, prev_root_pos, prev_root_rot, prev_joint_local_rots, dt) ==
    FrameOfRoot(computer, root_pos, quat_normalize(root_rot_arg), joint_local_rots, joint_global_pos,
                prev_root_pos, prev_root_rot, prev_joint_local_rots, dt)

----------------------------------------------------------------------------
(* The frame scenario: an AMPObservationComputer is constructed from a     *)
(* joint table and compute_frame is called on poses built from quarter     *)
(* turns about the coordinate axes.                                        *)

XAxis == <<One, Zero, Zero>>
YAxis == <<Zero, One, Zero>>
ZAxis == <<Zero, Zero, One>>

\* a table with a 3-DOF joint, a 1-DOF key body and a 0-DOF key body
ShortTable ==
    << <<"joint", "Bone", 3, FALSE>>, <<"joint", "Bone", 1, TRUE>>, <<"joint", "Bone", 0, TRUE>> >>

FrameTables == {HUMANOID_BONE_DEFS, ShortTable}

RootPositions == {<<Zero, One, One>>, <<One, Two, Neg(One)>>}

PrevPositions == {<<Zero, One, Zero>>}

\* upright, facing +X, facing -Z, pitched so that forward is vertical, and
\* a quaternion that is not yet normalised
RootRotations ==
    {quat_identity,
     quat_from_axis_angle(YAxis, Whole(90)),
     quat_from_axis_angle(YAxis, Whole(180)),
     quat_from_axis_angle(XAxis, Whole(0 - 90)),
     <<Zero, Zero, Zero, Two>>}

PrevRotations == {quat_identity, quat_from_axis_angle(YAxis, Whole(180))}

\* the local rotation of joint j (from 0) in pose p
PoseRotation(p, j) ==
    IF p = 0 THEN quat_identity
    ELSE IF (j + p) % 4 = 0 THEN quat_from_axis_angle(XAxis, Whole(90))
    ELSE IF (j + p) % 4 = 1 THEN quat_from_axis_angle(YAxis, Whole(0 - 90))
    ELSE IF (j + p) % 4 = 2 THEN quat_from_axis_angle(ZAxis, Whole(180))
    ELSE quat_multiply(quat_from_axis_angle(ZAxis, Whole(90)), quat_from_axis_angle(XAxis, Whole(90)))

JointPoses(n) == {[j \in 1..n |-> PoseRotation(p, j - 1)] : p \in 0..1}

\* joint j (from 0) stands at (j, 1, 2 - j)
JointPositions(n) == [j \in 1..n |-> <<Whole(j - 1), One, Whole(3 - j)>>]

TimeSteps == {Rat(1, 30), Zero, Rat(0 - 1, 30)}

FrameStart ==
    /\ bone_defs \in FrameTables
    /\ self = AMPObservationComputer(bone_defs)
    /\ pc = "constructed"
    /\ obs = << >>
    /\ idx = 0
    /\ kb = 0
    /\ writes = << >>
    /\ FrameIdle

\* obs = computer.compute_frame(...)
ComputeFrame ==
    /\ pc = "constructed"
    /\ frame_in = << >>
    /\ \E root_pos \in RootPositions, root_rot \in RootRotations :
       \E joint_local_rots \in JointPoses(Len(bone_defs)) :
       \E prev_root_pos \in {None} \cup PrevPositions, prev_root_rot \in {None} \cup PrevRotations :
       \E prev_joint_local_rots \in {None, << >>} \cup JointPoses(Len(bone_defs)) :
       \E dt \in TimeSteps :
          /\ frame_in' = [root_pos |-> root_pos, root_rot |-> root_rot,
                          joint_local_rots |-> joint_local_rots,
                          joint_global_pos |-> JointPositions(Len(bone_defs)),
                          prev_root_pos |-> prev_root_pos, prev_root_rot |-> prev_root_rot,
                          prev_joint_local_rots |-> prev_joint_local_rots, dt |-> dt]
          /\ frame_out' = compute_frame(self, root_pos, root_rot, joint_local_rots,
                                        JointPositions(Len(bone_defs)), prev_root_pos,
                                        prev_root_rot, prev_joint_local_rots, dt)
    /\ UNCHANGED <<codecVars, fwdVars, policyVars, obsVars, rotVars, clipVars, toolVars>>

NextFrame == ComputeFrame

FrameInit == CodecIdle /\ FwdIdle /\ PolicyIdle /\ FrameStart /\ RotIdle /\ ClipIdle /\ ToolIdle

SpecFrame == FrameInit /\ [][NextFrame]_vars

----------------------------------------------------------------------------
(* tools/unicon_training/state_encoder.py: the heading of a quaternion     *)
(* written (w, x, y, z).                                                   *)

\* np.arctan2(2.0 * (w * y + x * z), 1.0 - 2.0 * (y * y + z * z))
quat_yaw(q) ==
    CASE IsVector(q, 4) ->
        LET w == q[1]
            x == q[2]
            y == q[3]
            z == q[4]
        IN  math_atan2(Mul(Two, Add(Mul(w, y), Mul(x, z))),
                       Sub(One, Mul(Two, Add(Mul(y, y), Mul(z, z)))))

\* the (w, x, y, z) form of a quaternion written (x, y, z, w), and back
wxyz(q) == <<q[4], q[1], q[2], q[3]>>

xyzw(q) == <<q[2], q[3], q[4], q[1]>>

\* state_encoder.quat_inverse: np.array([q[0], -q[1], -q[2], -q[3]])
state_encoder_quat_inverse(q) == <<q[1], Neg(q[2]), Neg(q[3]), Neg(q[4])>>

\* the product b * a
quat_mul_exchanged(a, b) ==
    CASE IsVector(a, 4) /\ IsVector(b, 4) ->
    LET aw == a[1]
        ax == a[2]
        ay == a[3]
        az == a[4]
        bw == b[1]
        bx == b[2]
        by == b[3]
        bz == b[4]
    IN  <<Sub(Sub(Sub(Mul(aw, bw), Mul(ax, bx)), Mul(ay, by)), Mul(az, bz)),
          Add(Sub(Add(Mul(aw, bx), Mul(ax, bw)), Mul(ay, bz)), Mul(az, by)),
          Sub(Add(Add(Mul(aw, by), Mul(ax, bz)), Mul(ay, bw)), Mul(az, bx)),
          Add(Add(Sub(Mul(aw, bz), Mul(ax, by)), Mul(ay, bx)), Mul(az, bw))>>

\* state_encoder.quat_mul
quat_mul(a, b) ==
    CASE IsVector(a, 4) /\ IsVector(b, 4) ->
    LET aw == a[1]
        ax == a[2]
        ay == a[3]
        az == a[4]
        bw == b[1]
        bx == b[2]
        by == b[3]
        bz == b[4]
    IN  <<Sub(Sub(Sub(Mul(aw, bw), Mul(ax, bx)), Mul(ay, by)), Mul(az, bz)),
          Sub(Add(Add(Mul(aw, bx), Mul(ax, bw)), Mul(ay, bz)), Mul(az, by)),
          Add(Add(Sub(Mul(aw, by), Mul(ax, bz)), Mul(ay, bw)), Mul(az, bx)),
          Add(Sub(Add(Mul(aw, bz), Mul(ax, by)), Mul(ay, bx)), Mul(az, bw))>>

----------------------------------------------------------------------------
(* The rotation scenario: the rotation functions are applied to the        *)
(* rotations that turn the coordinate axes into one another, to            *)
(* quaternions that are not normalised, and to matrices around the         *)
(* gimbal-lock threshold.                                                  *)

QuarterTurns == {0 - 90, 0, 90, 180}

\* quaternions of the 24 rotations that map the coordinate axes onto
\* coordinate axes
UnitRotations ==
    {quat_multiply(quat_from_axis_angle(YAxis, Whole(a)), quat_multiply(quat_from_axis_angle(XAxis, Whole(b)), quat_from_axis_angle(ZAxis, Whole(c)))) : a \in QuarterTurns, b \in QuarterTurns, c \in QuarterTurns}

\* yaw rotations about the up axis
YawRotations == {quat_from_axis_angle(YAxis, Whole(a)) : a \in QuarterTurns \ {0}}

\* quaternions of norm 5, 2, 2 and 0
OtherQuaternions ==
    {<<Zero, Whole(3), Zero, Whole(4)>>, <<One, One, One, One>>, <<Zero, Zero, Zero, Two>>, <<Zero, Zero, Zero, Zero>>}

\* decimal exponents: the float64 quaternion is q * 10^e
Exponents == {0, 0 - 13, 0 - 12, 0 - 170, 154, 200}

\* values of m[2][0] in [-1, 1] on both sides of the threshold
SyValues ==
    {Zero, Rat(1, 2), Rat(0 - 1, 2), Rat(99998, 100000), Rat(0 - 99998, 100000), Rat(99999, 100000), Rat(0 - 99999, 100000), One, Neg(One)}

RotStart ==
    /\ rot_in \in [q : UnitRotations \cup OtherQuaternions, e : Exponents]
    /\ rot_op = "input"
    /\ rot_out = << >>

\* the input is one of the unit rotations, at its ordinary magnitude
IsUnitInput == rot_in.e = 0 /\ SumSquares(rot_in.q) = One

\* quat_normalize(q), and quat_normalize of the result
QuatNormalize ==
    /\ rot_op = "input"
    /\ NormIsExact(rot_in.q)
    /\ rot_op' = "quat_normalize"
    /\ rot_out' = The({[once |-> once, twice |-> quat_normalize_float64(once, 0)] :
                           once \in {quat_normalize_float64(rot_in.q, rot_in.e)}})
    /\ UNCHANGED <<rot_in, codecVars, fwdVars, policyVars, obsVars, frameVars, clipVars, toolVars>>

\* get_heading_angle(q) and quat_yaw of the same rotation
HeadingAngles ==
    /\ rot_op = "input"
    /\ IsUnitInput
    /\ rot_op' = "heading"
    /\ LET q == rot_in.q
       IN  rot_out' = [get_heading_angle |-> get_heading_angle(q),
                       quat_yaw |-> quat_yaw(<<q[4], q[1], q[2], q[3]>>)]
    /\ UNCHANGED <<rot_in, codecVars, fwdVars, policyVars, obsVars, frameVars, clipVars, toolVars>>

\* step 2 of compute_frame: the heading-free rotation of the normalised
\* root rotation and its 6D block
RootRotationBlock(root_rot_arg) ==
    The({[heading_free |-> heading_free, rot6d |-> quat_to_tan_norm_6d(heading_free)] :
            heading_free \in {remove_heading(quat_normalize(root_rot_arg))}})

\* step 2 of compute_frame for q and for a yaw rotation times q
RemoveHeading ==
    /\ rot_op = "input"
    /\ IsUnitInput
    /\ rot_op' = "remove_heading"
    /\ \E yaw \in YawRotations :
          rot_out' = The({[yaw |-> yaw,
                           heading_free |-> r[1].heading_free,
                           rot6d |-> r[1].rot6d,
                           turned_heading_free |-> r[2].heading_free,
                           turned_rot6d |-> r[2].rot6d] :
                              r \in {[k \in 1..2 |-> RootRotationBlock(
                                         IF k = 1 THEN rot_in.q ELSE quat_multiply(yaw, rot_in.q))]}})
    /\ UNCHANGED <<rot_in, codecVars, fwdVars, policyVars, obsVars, frameVars, clipVars, toolVars>>

\* mat3_to_euler_xyz(quat_to_mat3(q)) for a quarter turn about one axis
EulerOfAxisRotation ==
    /\ rot_op = "input"
    /\ IsUnitInput
    /\ rot_op' = "axis_euler"
    /\ \E k \in 1..3, t \in {0 - 90, 90} :
          LET axis == <<XAxis, YAxis, ZAxis>>[k]
          IN  /\ rot_in.q = quat_from_axis_angle(axis, Whole(t))
              /\ rot_out' = [axis |-> k, t |-> Whole(t),
                             euler |-> mat3_to_euler_xyz(quat_to_mat3(rot_in.q))]
    /\ UNCHANGED <<rot_in, codecVars, fwdVars, policyVars, obsVars, frameVars, clipVars, toolVars>>

\* the matrix r with m[2][0] replaced by sy
WithSy(r, sy) == <<r[1], r[2], <<sy, r[3][2], r[3][3]>> >>

\* what mat3_to_euler_xyz(m) does
EulerOrRaise(m) ==
    IF mat3_to_euler_xyz_raises(m)
    THEN [m |-> m, raised |-> TRUE, euler |-> << >>]
    ELSE [m |-> m, raised |-> FALSE, euler |-> mat3_to_euler_xyz(m)]

\* mat3_to_euler_xyz on the matrix of q with m[2][0] replaced
EulerOfMatrix ==
    /\ rot_op = "input"
    /\ IsUnitInput
    /\ rot_op' = "euler"
    /\ \E sy \in SyValues :
          rot_out' = EulerOrRaise(WithSy(quat_to_mat3(rot_in.q), sy))
    /\ UNCHANGED <<rot_in, codecVars, fwdVars, policyVars, obsVars, frameVars, clipVars, toolVars>>

\* motion_dataset.quat_multiply / quat_inverse on (x, y, z, w) and
\* state_encoder.quat_mul / quat_inverse on the (w, x, y, z) forms
QuatProducts ==
    /\ rot_op = "input"
    /\ rot_in.e = 0
    /\ rot_op' = "products"
    /\ \E q2 \in UnitRotations \cup OtherQuaternions :
          rot_out' = [q2 |-> q2,
                      quat_multiply |-> quat_multiply(rot_in.q, q2),
                      quat_mul |-> quat_mul(wxyz(rot_in.q), wxyz(q2)),
                      quat_inverse |-> quat_inverse(rot_in.q),
                      state_encoder_quat_inverse |-> state_encoder_quat_inverse(wxyz(rot_in.q))]
    /\ UNCHANGED <<rot_in, codecVars, fwdVars, policyVars, obsVars, frameVars, clipVars, toolVars>>

NextRot ==
    \/ QuatProducts
    \/ QuatNormalize
    \/ HeadingAngles
    \/ RemoveHeading
    \/ EulerOfAxisRotation
    \/ EulerOfMatrix

RotInit == CodecIdle /\ FwdIdle /\ PolicyIdle /\ ObsIdle /\ FrameIdle /\ RotStart /\ ClipIdle /\ ToolIdle

SpecRot == RotInit /\ [][NextRot]_vars

----------------------------------------------------------------------------
(* tools/convert_mocap_to_training.py and tools/convert_fbx_to_training.py *)
(* write a clip, one slot per training joint of their own joint table;     *)
(* tools/motion_dataset.py reads the slots through its own table.          *)

\* the converter's table with the lower arm and the hand of the right side
\* exchanged
HUMANOID_BONE_DEFS_exchanged ==
    << <<"pelvis", "Hips", 3, FALSE>>,
       <<"abdomen", "Spine", 3, FALSE>>,
       <<"chest", "Spine1", 3, FALSE>>,
       <<"neck", "Neck", 3, FALSE>>,
       <<"head", "Head", 3, TRUE>>,
       <<"right_upper_arm", "RightArm", 3, FALSE>>,
       <<"right_hand", "RightHand", 0, TRUE>>,
       <<"right_lower_arm", "RightForeArm", 1, FALSE>>,
       <<"left_upper_arm", "LeftArm", 3, FALSE>>,
       <<"left_lower_arm", "LeftForeArm", 1, FALSE>>,
       <<"left_hand", "LeftHand", 0, TRUE>>,
       <<"right_thigh", "RightUpLeg", 3, FALSE>>,
       <<"right_shin", "RightLeg", 1, FALSE>>,
       <<"right_foot", "RightFoot", 3, TRUE>>,
       <<"left_thigh", "LeftUpLeg", 3, FALSE>>,
       <<"left_shin", "LeftLeg", 1, FALSE>>,
       <<"left_foot", "LeftFoot", 3, TRUE>> >>

\* HUMANOID_BONE_DEFS of convert_mocap_to_training.py
mocap_HUMANOID_BONE_DEFS ==
    << <<"pelvis", "Hips", 3, FALSE>>,
       <<"abdomen", "Spine", 3, FALSE>>,
       <<"chest", "Spine1", 3, FALSE>>,
       <<"neck", "Neck", 3, FALSE>>,
       <<"head", "Head", 3, TRUE>>,
       <<"right_upper_arm", "RightArm", 3, FALSE>>,
       <<"right_lower_arm", "RightForeArm", 1, FALSE>>,
       <<"right_hand", "RightHand", 0, TRUE>>,
       <<"left_upper_arm", "LeftArm", 3, FALSE>>,
       <<"left_lower_arm", "LeftForeArm", 1, FALSE>>,
       <<"left_hand", "LeftHand", 0, TRUE>>,
       <<"right_thigh", "RightUpLeg", 3, FALSE>>,
       <<"right_shin", "RightLeg", 1, FALSE>>,
       <<"right_foot", "RightFoot", 3, TRUE>>,
       <<"left_thigh", "LeftUpLeg", 3, FALSE>>,
       <<"left_shin", "LeftLeg", 1, FALSE>>,
       <<"left_foot", "LeftFoot", 3, TRUE>> >>

\* HUMANOID_BONE_DEFS of convert_fbx_to_training.py
fbx_HUMANOID_BONE_DEFS ==
    << <<"pelvis", "Hips", 3, FALSE>>,
       <<"abdomen", "Spine", 3, FALSE>>,
       <<"chest", "Spine1", 3, FALSE>>,
       <<"neck", "Neck", 3, FALSE>>,
       <<"head", "Head", 3, TRUE>>,
       <<"right_upper_arm", "RightArm", 3, FALSE>>,
       <<"right_lower_arm", "RightForeArm", 1, FALSE>>,
       <<"right_hand", "RightHand", 0, TRUE>>,
       <<"left_upper_arm", "LeftArm", 3, FALSE>>,
       <<"left_lower_arm", "LeftForeArm", 1, FALSE>>,
       <<"left_hand", "LeftHand", 0, TRUE>>,
       <<"right_thigh", "RightUpLeg", 3, FALSE>>,
       <<"right_shin", "RightLeg", 1, FALSE>>,
       <<"right_foot", "RightFoot", 3, TRUE>>,
       <<"left_thigh", "LeftUpLeg", 3, FALSE>>,
       <<"left_shin", "LeftLeg", 1, FALSE>>,
       <<"left_foot", "LeftFoot", 3, TRUE>> >>

Converters == {"convert_mocap_to_training", "convert_fbx_to_training"}

\* the joint table of the module a converter lives in
ConverterTable(converter) ==
    IF converter = "convert_mocap_to_training" THEN mocap_HUMANOID_BONE_DEFS
    ELSE fbx_HUMANOID_BONE_DEFS

\* {name: eng for name, eng, _, _ in defs}[t_name]: a later entry of the
\* same name replaces an earlier one
training_to_engine(defs, t_name) ==
    LET last == CHOOSE j \in 1..Len(defs) :
                    /\ defs[j][1] = t_name
                    /\ \A k \in (j + 1)..Len(defs) : defs[k][1] # t_name
    IN  defs[last][2]

\* the engine bones a source skeleton can have: all of them, or all but one
EngineBones == {HUMANOID_BONE_DEFS[j][2] : j \in 1..Len(HUMANOID_BONE_DEFS)}

SourceSkeletons == {EngineBones} \cup {EngineBones \ {b} : b \in EngineBones}

ClipStart ==
    /\ clip_in \in [converter : Converters, found : SourceSkeletons]
    /\ clip_slots = << >>
    /\ clip_reads = << >>

\* for ji, t_name in enumerate(TRAINING_JOINT_NAMES): slot ji takes the data
\* of the source bone mapped to t_name and keeps the identity when the
\* source has no such bone; joint_names[ji] is t_name
ConvertJoint ==
    /\ clip_in # << >>
    /\ LET defs == ConverterTable(clip_in.converter)
           names == TRAINING_JOINT_NAMES(defs)
           ji == Len(clip_slots)
       IN  /\ ji < Len(names)
           /\ LET t_name == names[ji + 1]
                  eng_name == training_to_engine(defs, t_name)
              IN  clip_slots' = Append(clip_slots,
                      [joint_name |-> t_name,
                       bone |-> IF eng_name \in clip_in.found THEN eng_name ELSE "identity"])
    /\ UNCHANGED <<clip_in, clip_reads, codecVars, fwdVars, policyVars, obsVars, frameVars, rotVars, toolVars>>

\* _extract_dof_positions on the converted frame: entry d reads slot ji of
\* joint_local_rots for (ji, axis) = DOF_MAPPINGS[d]
ExtractDof ==
    /\ clip_in # << >>
    /\ Len(clip_slots) = Len(ConverterTable(clip_in.converter))
    /\ LET mappings == DOF_MAPPINGS(HUMANOID_BONE_DEFS)
           d == Len(clip_reads)
       IN  /\ d < Len(mappings)
           /\ LET ji == mappings[d + 1][1]
                  axis == mappings[d + 1][2]
              IN  clip_reads' = Append(clip_reads,
                      IF ji < Len(clip_slots)
                      THEN [raised |-> FALSE, ji |-> ji, axis |-> axis, slot |-> clip_slots[ji + 1]]
                      ELSE [raised |-> TRUE, ji |-> ji, axis |-> axis, slot |-> << >>])
    /\ UNCHANGED <<clip_in, clip_slots, codecVars, fwdVars, policyVars, obsVars, frameVars, rotVars, toolVars>>

NextClip ==
    \/ ConvertJoint
    \/ ExtractDof

ClipInit == CodecIdle /\ FwdIdle /\ PolicyIdle /\ ObsIdle /\ FrameIdle /\ RotIdle /\ ClipStart /\ ToolIdle

SpecClip == ClipInit /\ [][NextClip]_vars

----------------------------------------------------------------------------
(* tools/unicon_training/state_encoder.py: StateEncoder.  The entries of   *)
(* the observation are tags that name the slot, the field, the joint and   *)
(* the component written; array indices count from 0 as in the source.     *)

ROOT_OFFSET_DIM == 7

\* StateEncoder.__init__
StateEncoder(num_joints, tau) == [num_joints |-> num_joints, tau |-> tau]

frame_encoding_dim_without_joints(enc) == 11

frame_encoding_dim(enc) == 11 + 10 * enc.num_joints

observation_dim(enc) == (1 + enc.tau) * frame_encoding_dim(enc) + enc.tau * ROOT_OFFSET_DIM

\* one entry of the observation
EncEntry(slot, field, joint, axis) == [slot |-> slot, field |-> field, joint |-> joint, axis |-> axis]

\* a vector of n components of one field
EncVector(slot, field, joint, n) == [c \in 1..n |-> EncEntry(slot, field, joint, c - 1)]

\* for i in range(self.num_joints): one vector of n components per joint
EncJointVectors(enc, slot, field, n) == [i \in 1..enc.num_joints |-> EncVector(slot, field, i - 1, n)]

\* out[idx:idx + n] = values; idx += n, and out[idx] = value; idx += 1.
\* Past the end of out the item assignment raises IndexError and the slice
\* assignment ValueError.
RECURSIVE EncWrite(_, _)
EncWrite(st, pieces) ==
    IF pieces = << >> \/ st.raised THEN st
    ELSE LET values == Head(pieces)
         IN  IF st.idx + Len(values) > Len(st.out)
             THEN [st EXCEPT !.raised = TRUE]
             ELSE EncWrite([raised |-> FALSE,
                            out |-> SetSlice(st.out, st.idx, Len(values), values),
                            idx |-> st.idx + Len(values)],
                           Tail(pieces))

\* the assignments of _encode_frame, in order
EncodeFramePieces(enc, slot) ==
    <<EncVector(slot, "root_height", Root, 1), EncVector(slot, "local_rot", Root, 4)>>
    \o EncJointVectors(enc, slot, "rel_pos", 3)
    \o EncJointVectors(enc, slot, "local_jrot", 4)
    \o <<EncVector(slot, "local_lin_vel", Root, 3), EncVector(slot, "local_ang_vel", Root, 3)>>
    \o EncJointVectors(enc, slot, "local_jav", 3)

\* StateEncoder._encode_frame: [raised, out, n], n being idx - offset
EncodeFrameOf(st, offset) == [raised |-> st.raised, out |-> st.out, n |-> st.idx - offset]

_encode_frame(enc, slot, out, offset) ==
    EncodeFrameOf(EncWrite([raised |-> FALSE, out |-> out, idx |-> offset], EncodeFramePieces(enc, slot)), offset)

\* the assignments of _encode_root_offset, in order: local_offset[0],
\* local_offset[2], local_offset[1] and the rotation offset
EncodeRootOffsetPieces(slot) ==
    <<<<EncEntry(slot, "local_offset", Root, 0)>>,
      <<EncEntry(slot, "local_offset", Root, 2)>>,
      <<EncEntry(slot, "local_offset", Root, 1)>>,
      EncVector(slot, "rot_offset", Root, 4)>>

\* StateEncoder._encode_root_offset: returns self.ROOT_OFFSET_DIM
EncodeRootOffsetOf(st) == [raised |-> st.raised, out |-> st.out, n |-> ROOT_OFFSET_DIM]

_encode_root_offset(enc, slot, out, offset) ==
    EncodeRootOffsetOf(EncWrite([raised |-> FALSE, out |-> out, idx |-> offset], EncodeRootOffsetPieces(slot)))

\* a slot that is not encoded: n = self.frame_encoding_dim or
\* n = self.ROOT_OFFSET_DIM
EncSkip(out, n) == [raised |-> FALSE, out |-> out, n |-> n]

\* np.zeros(self.observation_dim, dtype=np.float32)
EncZeros(n) == [i \in 1..n |-> EncEntry(<<"none", 0>>, "zero", Root, 0)]

----------------------------------------------------------------------------
(* The encoder scenario: a StateEncoder is constructed and encode runs     *)
(* with some number of target frames, one slot at a time.                  *)

\* where encode continues when turn k of a loop is the next one
EncAfter(enc, loop, k) ==
    IF loop = "target" /\ k < enc.tau THEN "target"
    ELSE IF loop = "target" THEN (IF 0 < enc.tau THEN "root_offset" ELSE "done")
    ELSE IF k < enc.tau THEN "root_offset"
    ELSE "done"

EncStart ==
    /\ enc_self \in {StateEncoder(j, t) : j \in 0..MaxEncJoints, t \in 0..MaxTau}
    /\ enc_targets \in 0..(MaxTau + 1)
    /\ enc_pc = "idle"
    /\ enc_k = 0
    /\ enc_offset = 0
    /\ enc_obs = << >>
    /\ enc_starts = << >>

\* obs = np.zeros(...); offset = 0; the current frame; offset += n
EncodeCurrent ==
    /\ enc_pc = "idle"
    /\ LET r == _encode_frame(enc_self, <<"current", 0>>, EncZeros(observation_dim(enc_self)), 0)
       IN  /\ enc_obs' = r.out
           /\ enc_offset' = IF r.raised THEN 0 ELSE r.n
           /\ enc_pc' = IF r.raised THEN "raised" ELSE EncAfter(enc_self, "target", 0)
    /\ enc_k' = 0
    /\ enc_starts' = <<<<"current", 0, 0>>>>
    /\ UNCHANGED <<enc_self, enc_targets, earlierVars, besideEnc>>

\* one turn of the loop over the target frames
EncodeTarget ==
    /\ enc_pc = "target"
    /\ LET r == IF enc_k < enc_targets
                THEN _encode_frame(enc_self, <<"target", enc_k>>, enc_obs, enc_offset)
                ELSE EncSkip(enc_obs, frame_encoding_dim(enc_self))
       IN  /\ enc_obs' = r.out
           /\ enc_offset' = IF r.raised THEN enc_offset ELSE enc_offset + r.n
           /\ enc_pc' = IF r.raised THEN "raised" ELSE EncAfter(enc_self, "target", enc_k + 1)
           /\ enc_k' = IF r.raised THEN enc_k ELSE IF enc_k + 1 < enc_self.tau THEN enc_k + 1 ELSE 0
    /\ enc_starts' = Append(enc_starts, <<"target", enc_k, enc_offset>>)
    /\ UNCHANGED <<enc_self, enc_targets, earlierVars, besideEnc>>

\* one turn of the loop over the root offsets; after the last one obs is
\* returned
EncodeRootOffset ==
    /\ enc_pc = "root_offset"
    /\ LET r == IF enc_k < enc_targets
                THEN _encode_root_offset(enc_self, <<"root_offset", enc_k>>, enc_obs, enc_offset)
                ELSE EncSkip(enc_obs, ROOT_OFFSET_DIM)
       IN  /\ enc_obs' = r.out
           /\ enc_offset' = IF r.raised THEN enc_offset ELSE enc_offset + r.n
           /\ enc_pc' = IF r.raised THEN "raised" ELSE EncAfter(enc_self, "root_offset", enc_k + 1)
           /\ enc_k' = IF r.raised THEN enc_k ELSE enc_k + 1
    /\ enc_starts' = Append(enc_starts, <<"root_offset", enc_k, enc_offset>>)
    /\ UNCHANGED <<enc_self, enc_targets, earlierVars, besideEnc>>

NextEnc ==
    \/ EncodeCurrent
    \/ EncodeTarget
    \/ EncodeRootOffset

EncInit == CodecIdle /\ FwdIdle /\ PolicyIdle /\ ObsIdle /\ FrameIdle /\ RotIdle /\ ClipIdle /\ EncStart /\ LibIdle /\ PureIdle /\ CobsIdle /\ DataIdle /\ TagIdle /\ SeqIdle /\ VenvIdle

SpecEnc == EncInit /\ [][NextEnc]_vars

----------------------------------------------------------------------------
(* tools/calm_encode_library.py: the latent library.  The encoder runs on  *)
(* thousandths as the forward passes do; its output is then held as        *)
(* numbers (a + b * sqrt(2)) / d, on which the norm is exact.              *)

\* 1e-8
NormThreshold == <<1, 0, 10^8>>

\* a float that is v thousandths
FromMilli(v) == Rat(v, Milli)

\* v / norm, or v
L2OfNorm(v, norm) ==
    IF norm.kind = "finite" /\ Less(NormThreshold, norm.n)
    THEN The({[k \in 1..Len(v) |-> Mul(v[k], r)] : r \in {Inv(norm.n)}})
    ELSE v

\* calm_encode_library.l2_normalize
l2_normalize(v) == L2OfNorm(v, np_linalg_norm(v, 0))

\* flat[:in_dim], or flat zero-padded to in_dim
LibFlat(data, in_dim) ==
    IF Len(data) >= in_dim THEN SubSeq(data, 1, in_dim)
    ELSE data \o [k \in 1..(in_dim - Len(data)) |-> 0]

\* one turn of the loop of encode_clips_with_bin_encoder: the behaviors
\* list after the clip file
LibEncodeClip(encoder_layers, behaviors, clip) ==
    IF clip.ndim \notin {1, 2} THEN behaviors
    ELSE LET in_dim == encoder_layers[1].weight.shape[2]
             latent == forward_mlp_numpy(encoder_layers, LibFlat(clip.data, in_dim))
         IN  Append(behaviors,
                    [clip |-> clip.name,
                     latent |-> l2_normalize([k \in 1..Len(latent.x) |-> FromMilli(latent.x[k])])])

\* random.gauss(0, 1) for entry k of behavior i: the draws of one behavior
\* are not all zero
random_gauss(i, k, latent_dim) ==
    IF k = (i % latent_dim) + 1 THEN Whole(3)
    ELSE IF k = ((i + 1) % latent_dim) + 1 THEN Whole(4)
    ELSE Zero

\* what round(x, 6) keeps of a number with at most six decimals
round6(x) == CASE 10^6 % x[3] = 0 /\ x[2] = 0 -> x

\* the latent of behavior i of create_dummy_library
DummyLatentOf(latent, norm) == [k \in 1..Len(latent) |-> round6(Div(latent[k], norm))]

DummyLatent(i, latent_dim) ==
    DummyLatentOf([k \in 1..latent_dim |-> random_gauss(i, k, latent_dim)],
                  sqrt(SumSquares([k \in 1..latent_dim |-> random_gauss(i, k, latent_dim)])))

\* len(behaviors_spec)
NumDummyBehaviors == 15

\* create_dummy_library: the document written
create_dummy_library(latent_dim) ==
    [latent_dim |-> latent_dim,
     behaviors |-> [i \in 1..NumDummyBehaviors |->
                       [clip |-> i - 1, latent |-> DummyLatent(i - 1, latent_dim)]]]

----------------------------------------------------------------------------
(* The library scenario: calm_encode_library.py runs with --dummy or with  *)
(* --encoder-bin on a directory of clip files.                             *)

\* the values of --latent-dim and the widths of the encoder
LatentDims == {1, 2, 3}
EncoderWidths == {1, 2}

\* a one-layer encoder without bias: every weight 1, or 1 on the diagonal
LibWeight(p, out_f, in_f) ==
    [shape |-> <<out_f, in_f>>,
     data |-> [k \in 1..(out_f * in_f) |->
                  IF p = 1 \/ (k - 1) \div in_f = (k - 1) % in_f THEN 1 ELSE 0]]

LibEncoders ==
    {<<[weight |-> LibWeight(p, out_f, in_f),
        bias |-> [o \in 1..out_f |-> 0],
        activation |-> library_ACTIVATION_NONE]>> :
        p \in 1..2, out_f \in EncoderWidths, in_f \in EncoderWidths}

\* the arrays np.load can return for a clip file: ndim and the entries in
\* C order, in thousandths
LibClipArrays ==
    {[ndim |-> 1, data |-> << >>],
     [ndim |-> 1, data |-> <<3 * Milli>>],
     [ndim |-> 2, data |-> <<0, 0>>],
     [ndim |-> 2, data |-> <<3 * Milli, 4 * Milli, 4 * Milli>>],
     [ndim |-> 3, data |-> <<3 * Milli, 4 * Milli>>]}

\* sorted(clips_dir.glob("*.npy")) of a directory of n files
LibClipFiles(n) ==
    {[i \in 1..n |-> [name |-> i, ndim |-> arrays[i].ndim, data |-> arrays[i].data]] :
        arrays \in [1..n -> LibClipArrays]}

LibStart ==
    /\ \/ lib_args \in [dummy : {TRUE}, latent_dim : LatentDims, encoder_layers : {<< >>}, clips : {<< >>}]
       \/ \E n \in 0..MaxClips :
             lib_args \in [dummy : {FALSE}, latent_dim : LatentDims, encoder_layers : LibEncoders, clips : LibClipFiles(n)]
    /\ lib_stage = "start"
    /\ lib_next = 0
    /\ lib_behaviors = << >>
    /\ lib_library = << >>

\* main with --dummy
CreateDummyLibrary ==
    /\ lib_stage = "start"
    /\ lib_args.dummy
    /\ lib_stage' = "written"
    /\ lib_library' = create_dummy_library(lib_args.latent_dim)
    /\ UNCHANGED <<lib_args, lib_next, lib_behaviors, earlierVars, besideLib>>

\* one clip file of encode_clips_with_bin_encoder
EncodeClip ==
    /\ lib_stage \in {"start", "encoding"}
    /\ ~lib_args.dummy
    /\ lib_next < Len(lib_args.clips)
    /\ lib_stage' = "encoding"
    /\ lib_next' = lib_next + 1
    /\ lib_behaviors' = LibEncodeClip(lib_args.encoder_layers, lib_behaviors, lib_args.clips[lib_next + 1])
    /\ UNCHANGED <<lib_args, lib_library, earlierVars, besideLib>>

\* main after the encoding: sys.exit(1) without behaviors, the library
\* document otherwise
WriteLibrary ==
    /\ lib_stage \in {"start", "encoding"}
    /\ ~lib_args.dummy
    /\ lib_next = Len(lib_args.clips)
    /\ IF lib_behaviors = << >>
       THEN /\ lib_stage' = "exit"
            /\ UNCHANGED lib_library
       ELSE /\ lib_stage' = "written"
            /\ lib_library' = [latent_dim |-> lib_args.latent_dim, behaviors |-> lib_behaviors]
    /\ UNCHANGED <<lib_args, lib_next, lib_behaviors, earlierVars, besideLib>>

NextLib ==
    \/ CreateDummyLibrary
    \/ EncodeClip
    \/ WriteLibrary

LibInit == CodecIdle /\ FwdIdle /\ PolicyIdle /\ ObsIdle /\ FrameIdle /\ RotIdle /\ ClipIdle /\ EncIdle /\ LibStart /\ PureIdle /\ CobsIdle /\ DataIdle /\ TagIdle /\ SeqIdle /\ VenvIdle

SpecLib == LibInit /\ [][NextLib]_vars

----------------------------------------------------------------------------
(* What compute_frame and forward_mlp_numpy do to the objects they are     *)
(* handed.  An object is named by a string; a call's arguments are the     *)
(* names of the objects passed ("None" for None).  Inside a function a     *)
(* local name refers to an object of the caller or to a new array, and     *)
(* only a subscript assignment changes an object.                          *)

\* what a local name of compute_frame and _extract_dof_positions refers
\* to: np.asarray(a, dtype=np.float64) of a float64 array is a itself;
\* np.zeros, quat_normalize and the arithmetic return new arrays
FrameNames(args) ==
    [self |-> "self",
     obs |-> "new",
     root_pos |-> args.root_pos,
     root_rot |-> "new",
     prev_root_pos |-> args.prev_root_pos,
     prev_root_rot |-> "new",
     delta_rot |-> "new",
     world_pos |-> args.joint_global_pos,
     joint_local_rots |-> args.joint_local_rots,
     dof_pos |-> "new",
     prev_dof_pos |-> "new",
     q |-> "new"]

\* the names that stand to the left of a subscript assignment in
\* compute_frame (obs[idx] = ..., obs[idx:idx + n] = ...) and in
\* _extract_dof_positions (dof_pos[d] = ...), with root_pos added
FrameStoreTargets_root_pos == {"obs", "dof_pos", "root_pos"}

\* the names that stand to the left of a subscript assignment in
\* compute_frame (obs[idx] = ..., obs[idx:idx + n] = ...) and in
\* _extract_dof_positions (dof_pos[d] = ...)
FrameStoreTargets == {"obs", "dof_pos"}

\* forward_mlp_numpy: x is the argument until x = layer["weight"] @ x + ...
\* rebinds it to a new array
ForwardNames(args) == [layers |-> args.layers, layer |-> args.layers, x |-> args.x]

\* forward_mlp_numpy has no subscript assignment
ForwardStoreTargets == {}

\* an object some store has written to
Overwritten == <<"overwritten">>

\* the objects after the stores of a call
StoreEffect(heap, names, targets) ==
    [o \in DOMAIN heap |->
        IF \E t \in targets : names[t] = o THEN Overwritten ELSE heap[o]]

\* the object an argument names
Deref(heap, name) == IF name = "None" THEN None ELSE heap[name]

\* self.compute_frame(...) on the objects the arguments name
CallComputeFrame(heap, args, dt) ==
    compute_frame(heap.self, Deref(heap, args.root_pos), Deref(heap, args.root_rot),
                  Deref(heap, args.joint_local_rots), Deref(heap, args.joint_global_pos),
                  Deref(heap, args.prev_root_pos), Deref(heap, args.prev_root_rot),
                  Deref(heap, args.prev_joint_local_rots), dt)

----------------------------------------------------------------------------
(* The purity scenario: one encoder, two poses, one model and two input    *)
(* vectors; compute_frame and forward_mlp_numpy are called on them in any  *)
(* order.                                                                  *)

PureModel ==
    <<[weight |-> FwdWeight(2, 2, 2), bias |-> FwdBias(1, 2), activation |-> library_ACTIVATION_RELU],
      [weight |-> FwdWeight(1, 1, 2), bias |-> FwdBias(2, 1), activation |-> library_ACTIVATION_TANH]>>

PureStart ==
    /\ \E root_pos \in RootPositions, root_rot \in {quat_from_axis_angle(YAxis, Whole(90)), <<Zero, Zero, Zero, Two>>} :
          pure_heap = [self |-> AMPObservationComputer(ShortTable),
                       root_pos |-> root_pos,
                       root_rot |-> root_rot,
                       joint_local_rots |-> [j \in 1..Len(ShortTable) |-> PoseRotation(1, j - 1)],
                       joint_global_pos |-> JointPositions(Len(ShortTable)),
                       prev_root_pos |-> <<Zero, One, Zero>>,
                       prev_root_rot |-> quat_from_axis_angle(YAxis, Whole(180)),
                       prev_joint_local_rots |-> [j \in 1..Len(ShortTable) |-> PoseRotation(0, j - 1)],
                       prev_joint_global_pos |-> JointPositions(Len(ShortTable)),
                       layers |-> PureModel,
                       x |-> <<Milli, 0 - Milli>>,
                       x2 |-> <<Milli \div 2, Milli \div 2>>]
    /\ pure_first = pure_heap
    /\ pure_log = << >>

\* the pose, without and with the other pose as its previous frame, and
\* the other pose with this one as its previous frame
PureFrameArgs ==
    {[root_pos |-> "root_pos", root_rot |-> "root_rot", joint_local_rots |-> "joint_local_rots",
      joint_global_pos |-> "joint_global_pos", prev_root_pos |-> "None", prev_root_rot |-> "None",
      prev_joint_local_rots |-> "None"],
     [root_pos |-> "root_pos", root_rot |-> "root_rot", joint_local_rots |-> "joint_local_rots",
      joint_global_pos |-> "joint_global_pos", prev_root_pos |-> "prev_root_pos",
      prev_root_rot |-> "prev_root_rot", prev_joint_local_rots |-> "prev_joint_local_rots"],
     [root_pos |-> "prev_root_pos", root_rot |-> "prev_root_rot",
      joint_local_rots |-> "prev_joint_local_rots", joint_global_pos |-> "prev_joint_global_pos",
      prev_root_pos |-> "root_pos", prev_root_rot |-> "root_rot",
      prev_joint_local_rots |-> "joint_local_rots"]}

PureForwardArgs == {[layers |-> "layers", x |-> "x"], [layers |-> "layers", x |-> "x2"]}

\* computer.compute_frame(...) on objects of the scenario
PureComputeFrame ==
    /\ pure_heap # << >>
    /\ Len(pure_log) < MaxCalls
    /\ \E args \in PureFrameArgs :
          /\ pure_log' = Append(pure_log, [fn |-> "compute_frame", args |-> args,
                                           result |-> CallComputeFrame(pure_heap, args, Rat(1, 30))])
          /\ pure_heap' = StoreEffect(pure_heap, FrameNames(args), FrameStoreTargets)
    /\ UNCHANGED <<pure_first, earlierVars, besidePure>>

\* forward_mlp_numpy(layers, x) on objects of the scenario
PureForward ==
    /\ pure_heap # << >>
    /\ Len(pure_log) < MaxCalls
    /\ \E args \in PureForwardArgs :
          /\ pure_log' = Append(pure_log, [fn |-> "forward_mlp_numpy", args |-> args,
                                           result |-> forward_mlp_numpy(pure_heap[args.layers], pure_heap[args.x])])
          /\ pure_heap' = StoreEffect(pure_heap, ForwardNames(args), ForwardStoreTargets)
    /\ UNCHANGED <<pure_first, earlierVars, besidePure>>

NextPure ==
    \/ PureComputeFrame
    \/ PureForward

PureInit == CodecIdle /\ FwdIdle /\ PolicyIdle /\ ObsIdle /\ FrameIdle /\ RotIdle /\ ClipIdle /\ EncIdle /\ LibIdle /\ PureStart /\ CobsIdle /\ DataIdle /\ TagIdle /\ SeqIdle /\ VenvIdle

SpecPure == PureInit /\ [][NextPure]_vars

----------------------------------------------------------------------------
(* tools/motion_dataset.py: AMPObservationComputer.compute_clip_observations *)

\* the float32 nearest to v
np_float32(v) == [dtype |-> "float32", of |-> v]

\* obs.astype(np.float32)
astype_float32(row) == [k \in 1..Len(row) |-> np_float32(row[k])]

\* arr[fi] when the index exists
PrevFrame_same(arr, fi) == IF fi > 0 THEN arr[fi + 1] ELSE None

\* arr[fi - 1] if fi > 0 else None
PrevFrame(arr, fi) == IF fi > 0 THEN arr[fi] ELSE None

\* 1.0 / fps if fps > 0 else 1.0 / 30.0
ClipDt(fps) == IF Less(Zero, fps) THEN Div(One, fps) ELSE Rat(1, 30)

\* np.zeros((num_frames, obs_dim), dtype=np.float32)
ClipZeros(num_frames, obs_dim) == [fi \in 1..num_frames |-> [k \in 1..obs_dim |-> np_float32(Zero)]]

\* the arguments of the compute_frame call of loop turn fi
ClipFrameArgs(clip, fi, dt) ==
    [root_pos |-> clip.root_positions[fi + 1],
     root_rot |-> clip.root_rotations[fi + 1],
     joint_local_rots |-> clip.joint_rotations[fi + 1],
     joint_global_pos |-> clip.joint_positions[fi + 1],
     prev_root_pos |-> PrevFrame(clip.root_positions, fi),
     prev_root_rot |-> PrevFrame(clip.root_rotations, fi),
     prev_joint_local_rots |-> PrevFrame(clip.joint_rotations, fi),
     dt |-> dt]

\* self.compute_frame(**args)
ClipComputeFrame(computer, args) ==
    compute_frame(computer, args.root_pos, args.root_rot, args.joint_local_rots,
                  args.joint_global_pos, args.prev_root_pos, args.prev_root_rot,
                  args.prev_joint_local_rots, args.dt)

----------------------------------------------------------------------------
(* The clip scenario: compute_clip_observations runs on a clip of 0 to     *)
(* MaxFrames frames that turns about the up axis while it moves.           *)

\* frame f (from 0) of the clips
ClipRootPosition(f) == <<Whole(f), One, Whole(2 * f)>>
ClipRootRotation(f) == quat_from_axis_angle(YAxis, Whole(90 * (f % 4)))

MotionClip(num_frames, fps) ==
    [fps |-> fps,
     num_frames |-> num_frames,
     root_positions |-> [f \in 1..num_frames |-> ClipRootPosition(f - 1)],
     root_rotations |-> [f \in 1..num_frames |-> ClipRootRotation(f - 1)],
     joint_rotations |-> [f \in 1..num_frames |-> [j \in 1..Len(ShortTable) |-> PoseRotation(f - 1, j - 1)]],
     joint_positions |-> [f \in 1..num_frames |-> [j \in 1..Len(ShortTable) |-> <<Whole(j + f), One, Whole(3 - j)>>]]]

\* values of clip.fps and of the fps argument
ClipRates == {Whole(30), Whole(60), Zero, Whole(0 - 30)}

CobsStart ==
    /\ cobs_clip \in {MotionClip(n, fps) : n \in 0..MaxFrames, fps \in ClipRates}
    /\ cobs_fps \in {None} \cup ClipRates
    /\ cobs_stage = "start"
    /\ cobs_dt = << >>
    /\ cobs_fi = 0
    /\ cobs_calls = << >>
    /\ cobs_observations = << >>

\* fps, dt and the observations array
BeginClipObservations ==
    /\ cobs_stage = "start"
    /\ cobs_stage' = "loop"
    /\ cobs_dt' = ClipDt(IF cobs_fps = None THEN cobs_clip.fps ELSE cobs_fps)
    /\ cobs_observations' = ClipZeros(cobs_clip.num_frames, AMPObservationComputer(ShortTable).obs_dim)
    /\ UNCHANGED <<cobs_clip, cobs_fps, cobs_fi, cobs_calls, earlierVars, besideCobs>>

\* one turn of the loop over the frames
ClipObservationFrame ==
    /\ cobs_stage = "loop"
    /\ cobs_fi < cobs_clip.num_frames
    /\ LET args == ClipFrameArgs(cobs_clip, cobs_fi, cobs_dt)
           r == ClipComputeFrame(AMPObservationComputer(ShortTable), args)
       IN  /\ cobs_calls' = Append(cobs_calls, args)
           /\ IF r.raised
              THEN /\ cobs_stage' = "raised"
                   /\ UNCHANGED <<cobs_fi, cobs_observations>>
              ELSE /\ cobs_stage' = "loop"
                   /\ cobs_fi' = cobs_fi + 1
                   /\ cobs_observations' = [cobs_observations EXCEPT ![cobs_fi + 1] = astype_float32(r.obs)]
    /\ UNCHANGED <<cobs_clip, cobs_fps, cobs_dt, earlierVars, besideCobs>>

\* return observations
ReturnClipObservations ==
    /\ cobs_stage = "loop"
    /\ cobs_fi = cobs_clip.num_frames
    /\ cobs_stage' = "returned"
    /\ UNCHANGED <<cobs_clip, cobs_fps, cobs_dt, cobs_fi, cobs_calls, cobs_observations, earlierVars, besideCobs>>

NextCobs ==
    \/ BeginClipObservations
    \/ ClipObservationFrame
    \/ ReturnClipObservations

CobsInit == CodecIdle /\ FwdIdle /\ PolicyIdle /\ ObsIdle /\ FrameIdle /\ RotIdle /\ ClipIdle /\ EncIdle /\ LibIdle /\ PureIdle /\ CobsStart /\ DataIdle /\ TagIdle /\ SeqIdle /\ VenvIdle

SpecCobs == CobsInit /\ [][NextCobs]_vars

----------------------------------------------------------------------------
(* tools/motion_dataset.py: MotionDataset.  A row of a clip's observations *)
(* is named by the clip and the frame it was computed from.                *)

\* row fi of the observations of a clip
ObsRow(id, fi) == [clip |-> id, frame |-> fi]

\* a row of np.zeros((batch_size, self.obs_dim))
ZeroRow == [clip |-> "none", frame |-> 0]

\* clip.observations: None, or the array of the rows
NoObservations == [is_none |-> TRUE, rows |-> << >>]

Observations(rows) == [is_none |-> FALSE, rows |-> rows]

\* MotionClip.compute_observations: the clip with its observations cached
compute_observations(clip) ==
    [clip EXCEPT !.observations = Observations([fi \in 1..clip.num_frames |-> ObsRow(clip.id, fi - 1)]),
                 !.encodes = clip.encodes + 1]

\* the clip as the loops of compute_all_observations and
\* sample_observations leave it
EnsureObservations(clip) ==
    IF clip.observations.is_none THEN compute_observations(clip) ELSE clip

\* MotionDataset.compute_all_observations
compute_all_observations(clips) == [ci \in 1..Len(clips) |-> EnsureObservations(clips[ci])]

\* the loop of sample_observations from sample i on: the clips and the
\* batch after it
RECURSIVE SampleLoop(_, _, _, _)
SampleLoop(clips, samples, i, obs_batch) ==
    IF i > Len(samples) THEN [clips |-> clips, obs_batch |-> obs_batch]
    ELSE LET ci == samples[i][1]
             fi == samples[i][2]
             clip == EnsureObservations(clips[ci + 1])
         IN  SampleLoop([clips EXCEPT ![ci + 1] = clip], samples, i + 1,
                        [obs_batch EXCEPT ![i] = clip.observations.rows[fi + 1]])

\* sum(c.num_frames for c in self.clips)
RECURSIVE SumFrames(_)
SumFrames(clips) == IF clips = << >> THEN 0 ELSE Head(clips).num_frames + SumFrames(Tail(clips))

\* what sample_frames can return for a batch: rng.choice draws clips of
\* non-zero weight, rng.integers(0, num_frames) a frame of the clip
SampleFrames(clips, batch_size) ==
    [1..batch_size -> {<<ci, fi>> \in (0..(Len(clips) - 1)) \X (0..(MaxFrames - 1)) :
                          fi < clips[ci + 1].num_frames}]

----------------------------------------------------------------------------
(* The dataset scenario: a MotionDataset is constructed and add_clip,      *)
(* compute_all_observations and sample_observations are called in any      *)
(* order.                                                                  *)

BatchSizes == {0, 1, 2}

DataStart ==
    /\ data_clips = << >>
    /\ data_last = "init"
    /\ data_batch = [raised |-> FALSE, rows |-> << >>]
    /\ data_ops = 0

\* dataset.add_clip(clip) with a clip that has no observations yet
AddClip ==
    /\ data_last # "idle"
    /\ data_ops < MaxOps
    /\ Len(data_clips) < MaxDataClips
    /\ \E n \in 0..(MaxFrames - 1) :
          data_clips' = Append(data_clips, [id |-> Len(data_clips), num_frames |-> n,
                                            observations |-> NoObservations, encodes |-> 0])
    /\ data_last' = "add_clip"
    /\ data_ops' = data_ops + 1
    /\ UNCHANGED <<data_batch, earlierVars, besideData>>

\* dataset.compute_all_observations()
ComputeAllObservations ==
    /\ data_last # "idle"
    /\ data_ops < MaxOps
    /\ data_clips' = compute_all_observations(data_clips)
    /\ data_last' = "compute_all_observations"
    /\ data_ops' = data_ops + 1
    /\ UNCHANGED <<data_batch, earlierVars, besideData>>

\* dataset.sample_observations(batch_size): without clips the batch stays
\* zero; with clips that have no frame at all the weights are 0 / 0 and
\* rng.choice raises ValueError
SampleObservations ==
    /\ data_last # "idle"
    /\ data_ops < MaxOps
    /\ \E batch_size \in BatchSizes :
          IF data_clips = << >>
          THEN /\ data_batch' = [raised |-> FALSE, rows |-> [i \in 1..batch_size |-> ZeroRow]]
               /\ UNCHANGED data_clips
          ELSE IF SumFrames(data_clips) = 0
          THEN /\ data_batch' = [raised |-> TRUE, rows |-> << >>]
               /\ UNCHANGED data_clips
          ELSE \E samples \in SampleFrames(data_clips, batch_size) :
                  LET r == SampleLoop(data_clips, samples, 1, [i \in 1..batch_size |-> ZeroRow])
                  IN  /\ data_batch' = [raised |-> FALSE, rows |-> r.obs_batch]
                      /\ data_clips' = r.clips
    /\ data_last' = "sample_observations"
    /\ data_ops' = data_ops + 1
    /\ UNCHANGED <<earlierVars, besideData>>

NextData ==
    \/ AddClip
    \/ ComputeAllObservations
    \/ SampleObservations

DataInit == CodecIdle /\ FwdIdle /\ PolicyIdle /\ ObsIdle /\ FrameIdle /\ RotIdle /\ ClipIdle /\ EncIdle /\ LibIdle /\ PureIdle /\ CobsIdle /\ DataStart /\ TagIdle /\ SeqIdle /\ VenvIdle

SpecData == DataInit /\ [][NextData]_vars

----------------------------------------------------------------------------
(* The tagging scenario: one of the exporters of tools/ml/export.py is     *)
(* called with one of the four activation types, and load_mlp_bin reads    *)
(* the file it wrote.                                                      *)

TagStart ==
    /\ tag_call = << >>
    /\ tag_stage = "start"
    /\ tag_file = << >>
    /\ tag_read = << >>

\* export_policy(policy, path, activation_type)
TagExportPolicy ==
    \E input_dim \in Dims, output_dim \in Dims, hidden_dim \in Dims :
    \E hidden_layers \in HiddenLayerCounts : \E activation_type \in StoredTags :
        LET policy == MLPPolicy(input_dim, output_dim, hidden_dim, hidden_layers, CodecStateDict)
            layers == get_layer_params(policy)
            wrote == ml_export_policy(layers, activation_type)
        IN  /\ tag_stage = "start"
            /\ tag_stage' = AfterWrite(wrote)
            /\ tag_call' = [exporter |-> "export_policy", num_layers |-> Len(layers),
                            activation_type |-> activation_type]
            /\ tag_file' = wrote.bytes
            /\ UNCHANGED <<tag_read, earlierVars, besideTag>>

\* export_random_policy(path, input_dim, output_dim, hidden_dim,
\* hidden_layers, activation_type, seed)
TagExportRandomPolicy ==
    \E input_dim \in Dims, output_dim \in Dims, hidden_dim \in Dims :
    \E hidden_layers \in HiddenLayerCounts : \E activation_type \in StoredTags :
    \E seed \in Seeds :
        LET wrote == ml_export_random_policy(input_dim, output_dim, hidden_dim, hidden_layers,
                                             activation_type, seed)
        IN  /\ tag_stage = "start"
            /\ tag_stage' = AfterWrite(wrote)
            /\ tag_call' = [exporter |-> "export_random_policy",
                            num_layers |-> hidden_layers + 1,
                            activation_type |-> activation_type]
            /\ tag_file' = wrote.bytes
            /\ UNCHANGED <<tag_read, earlierVars, besideTag>>

\* load_mlp_bin(path) on the exported file
TagLoad ==
    /\ tag_stage = "written"
    /\ tag_stage' = "read"
    /\ tag_read' = load_mlp_bin(tag_file)
    /\ UNCHANGED <<tag_call, tag_file, earlierVars, besideTag>>

NextTag ==
    \/ TagExportPolicy
    \/ TagExportRandomPolicy
    \/ TagLoad

TagInit == CodecIdle /\ FwdIdle /\ PolicyIdle /\ ObsIdle /\ FrameIdle /\ RotIdle /\ ClipIdle /\ EncIdle /\ LibIdle /\ PureIdle /\ CobsIdle /\ DataIdle /\ TagStart /\ SeqIdle /\ VenvIdle

SpecTag == TagInit /\ [][NextTag]_vars

----------------------------------------------------------------------------
(* The extraction scenario: a checkpoint holds an nn.Sequential of Linear  *)
(* and activation modules in turn under one prefix, some Linear modules    *)
(* without a bias, and a layer under another prefix;                       *)
(* extract_sequential_layers runs on it with a list of activations.        *)

SeqPrefix == "a2c_network.actor_mlp."

\* the parameters of the l-th Linear module: each holds the number l
SeqWeight(l) == [shape |-> <<1, 1>>, data |-> <<l>>]
SeqBias(l) == <<l>>

\* the state dict of a network of n Linear modules, module 2 * (l - 1) the
\* l-th, those in no_bias built with bias=False, and of a critic of one
\* Linear module
SeqCheckpoint(n, no_bias) ==
    LET LinearOf(k) == CHOOSE l \in 1..n : str(2 * (l - 1)) = k[2]
        keys == {<<SeqPrefix, str(2 * (l - 1)), "weight">> : l \in 1..n}
                \cup {<<SeqPrefix, str(2 * (l - 1)), "bias">> : l \in (1..n) \ no_bias}
                \cup {<<"a2c_network.critic_mlp.", str(0), "weight">>,
                      <<"a2c_network.critic_mlp.", str(0), "bias">>}
    IN  [k \in keys |->
            IF k[1] # SeqPrefix THEN (IF k[3] = "weight" THEN SeqWeight(0) ELSE SeqBias(0))
            ELSE IF k[3] = "weight" THEN SeqWeight(LinearOf(k))
            ELSE SeqBias(LinearOf(k))]

\* activation lists of m entries, ReLU and Tanh in turn or the other way
SeqActivationLists ==
    { [i \in 1..m |-> IF i % 2 = first THEN ACTIVATION_RELU ELSE ACTIVATION_TANH] :
          m \in 0..(MaxLinear + 1), first \in {0, 1} }

SeqStart ==
    /\ seq_state_dict = << >>
    /\ seq_stage = "start"
    /\ seq_activations = << >>
    /\ seq_layers = << >>

\* state_dict = torch.load(checkpoint)
LoadCheckpoint ==
    /\ seq_stage = "start"
    /\ seq_stage' = "loaded"
    /\ \E n \in 0..MaxLinear : \E no_bias \in SUBSET (1..n) :
          seq_state_dict' = SeqCheckpoint(n, no_bias)
    /\ UNCHANGED <<seq_activations, seq_layers, earlierVars, besideSeq>>

\* extract_sequential_layers(state_dict, prefix, activations)
ExtractSequentialLayers ==
    /\ seq_stage = "loaded"
    /\ seq_stage' = "returned"
    /\ \E activations \in SeqActivationLists :
          /\ seq_activations' = activations
          /\ seq_layers' = extract_sequential_layers(seq_state_dict, SeqPrefix, activations)
    /\ UNCHANGED <<seq_state_dict, earlierVars, besideSeq>>

NextSeq ==
    \/ LoadCheckpoint
    \/ ExtractSequentialLayers

SeqInit == CodecIdle /\ FwdIdle /\ PolicyIdle /\ ObsIdle /\ FrameIdle /\ RotIdle /\ ClipIdle /\ EncIdle /\ LibIdle /\ PureIdle /\ CobsIdle /\ DataIdle /\ TagIdle /\ SeqStart /\ VenvIdle

SpecSeq == SeqInit /\ [][NextSeq]_vars

----------------------------------------------------------------------------
(* training/vec_env_wrapper.py: DummyVecEnv.  An array of the source is    *)
(* the sequence whose entry i + 1 is a[i]; the random observations and     *)
(* rewards are modelled by their shapes, the random episode return by a    *)
(* choice.                                                                 *)

\* c + 1 on an int32
int32_add_one(c) == IF c = 2147483647 THEN 0 - 2147483647 - 1 ELSE c + 1

\* dones = self._step_counts > self.episode_length
step_dones_after(step_counts, episode_length) ==
    [i \in 1..Len(step_counts) |-> step_counts[i] > episode_length]

\* dones = self._step_counts >= self.episode_length
step_dones(step_counts, episode_length) ==
    [i \in 1..Len(step_counts) |-> step_counts[i] >= episode_length]

\* the shape of _random_obs()
random_obs_shape(env) == <<env.num_envs, env.obs_dim>>

EpisodeReturns == {0, 10}

NoInfo == [has_episode |-> FALSE, r |-> 0, l |-> 0]

VenvStart ==
    /\ venv_self = << >>
    /\ venv_last = "start"
    /\ venv_out = << >>
    /\ venv_steps = 0
    /\ venv_calls = 0

\* DummyVecEnv(num_envs, obs_dim, action_dim, episode_length)
NewDummyVecEnv ==
    /\ venv_last = "start"
    /\ venv_last' = "init"
    /\ \E num_envs \in 0..MaxEnvs : \E episode_length \in 1..MaxEpisode :
          venv_self' = [num_envs |-> num_envs, obs_dim |-> 102,
                        episode_length |-> episode_length,
                        _step_counts |-> [i \in 1..num_envs |-> 0]]
    /\ UNCHANGED <<venv_out, venv_steps, venv_calls, earlierVars, besideVenv>>

\* env.reset()
VenvReset ==
    /\ venv_last \in {"init", "reset", "step"}
    /\ venv_last' = "reset"
    /\ venv_self' = [venv_self EXCEPT !._step_counts = [i \in 1..venv_self.num_envs |-> 0]]
    /\ venv_out' = [obs |-> random_obs_shape(venv_self), rewards |-> 0,
                    dones |-> << >>, infos |-> << >>]
    /\ venv_steps' = 0
    /\ UNCHANGED <<venv_calls, earlierVars, besideVenv>>

\* env.step(actions)
VenvStep ==
    /\ venv_last \in {"init", "reset", "step"}
    /\ venv_calls < MaxSteps
    /\ venv_last' = "step"
    /\ LET counted == [i \in 1..venv_self.num_envs |->
                          int32_add_one(venv_self._step_counts[i])]
           dones == step_dones(counted, venv_self.episode_length)
       IN  /\ \E r \in [1..venv_self.num_envs -> EpisodeReturns] :
                 venv_out' = [obs |-> random_obs_shape(venv_self),
                              rewards |-> venv_self.num_envs,
                              dones |-> dones,
                              infos |-> [i \in 1..venv_self.num_envs |->
                                            IF dones[i]
                                            THEN [has_episode |-> TRUE, r |-> r[i],
                                                  l |-> counted[i]]
                                            ELSE NoInfo]]
           /\ venv_self' = [venv_self EXCEPT !._step_counts =
                               [i \in 1..venv_self.num_envs |->
                                   IF dones[i] THEN 0 ELSE counted[i]]]
    /\ venv_steps' = venv_steps + 1
    /\ venv_calls' = venv_calls + 1
    /\ UNCHANGED <<earlierVars, besideVenv>>

NextVenv ==
    \/ NewDummyVecEnv
    \/ VenvReset
    \/ VenvStep

VenvInit == CodecIdle /\ FwdIdle /\ PolicyIdle /\ ObsIdle /\ FrameIdle /\ RotIdle /\ ClipIdle /\ EncIdle /\ LibIdle /\ PureIdle /\ CobsIdle /\ DataIdle /\ TagIdle /\ SeqIdle /\ VenvStart

SpecVenv == VenvInit /\ [][NextVenv]_vars

----------------------------------------------------------------------------
(* Claims about the weight codec *)

\* the magic number, the file header size and the layer header size of the
\* format a reader reads
ReaderMagic(name) ==
    IF name \in {"unicon_verify_weights", "test_read_back"} THEN unicon_MAGIC ELSE ml_MAGIC

ReaderHasVersion(name) == name \in {"ml_verify_weights", "load_mlp_bin"}

HeaderSize(mlp1) == IF mlp1 THEN 12 ELSE 8

MagicMatches(f, name) == Len(f) >= 4 /\ SubSeq(f, 1, 4) = PackU32(ReaderMagic(name))

VersionMatches(f) == Len(f) >= 8 /\ SubSeq(f, 5, 8) = PackU32(1)

\* the bytes of the file from offset pos on are exactly n layers, each a
\* layer header of hdr bytes (inFeatures, outFeatures first) followed by
\* 4*out*in weight bytes and 4*out bias bytes
RECURSIVE ExactLayers(_, _, _, _)
ExactLayers(f, pos, n, hdr) ==
    IF n = 0 THEN pos = Len(f)
    ELSE /\ pos + hdr <= Len(f)
         /\ LET in_dim == UnpackU32(SubSeq(f, pos + 1, pos + 4))
                out_dim == UnpackU32(SubSeq(f, pos + 5, pos + 8))
                payload == BoundedMul(BoundedMul(out_dim, in_dim + 1, Len(f)), 4, Len(f))
            IN  /\ pos + hdr + payload <= Len(f)
                /\ ExactLayers(f, pos + hdr + payload, n - 1, hdr)

\* the file length equals header + sum of (layer header + weights + biases)
ExactSize(f, mlp1) ==
    /\ Len(f) >= HeaderSize(mlp1)
    /\ ExactLayers(f, HeaderSize(mlp1),
                   UnpackU32(SubSeq(f, HeaderSize(mlp1) - 3, HeaderSize(mlp1))),
                   HeaderSize(mlp1))

\* C1: every reader ends with an error, returns no layer and parses no
\* layer when the first uint32 of the file is not its magic number, and the
\* MLP1 readers also when the version field is not 1.
C1_BadHeaderRejected ==
    (stage = "read" /\ (\/ ~MagicMatches(file, reader)
                        \/ (ReaderHasVersion(reader) /\ ~VersionMatches(file))))
    => (result.status = "error" /\ result.layers = << >> /\ result.parsed = 0)

\* a file of at least a full header whose magic byte was flipped was read by
\* load_mlp_bin, and one whose version was rewritten by verify_weights
C1_Witness ==
    /\ stage = "read"
    /\ reader = "load_mlp_bin"
    /\ IsMLP1
    /\ tamper.kind = "magic"
    /\ Len(file) > 24
    /\ result.status = "error"

\* C2: with a correct magic (and version), verify_weights of either variant
\* returns without error exactly when the file has the exact size.
C2_VerifyAcceptsExactSize ==
    (stage = "read" /\ reader \in {"ml_verify_weights", "unicon_verify_weights"}
        /\ MagicMatches(file, reader)
        /\ (ReaderHasVersion(reader) => VersionMatches(file)))
    => (result.status = "ok" <=> ExactSize(file, ReaderHasVersion(reader)))

\* C3: load_mlp_bin raises for every MLP1 file from which bytes were removed
\* at the end or to which bytes were appended.
C3_LoadRejectsResized ==
    (stage = "read" /\ reader = "load_mlp_bin" /\ IsMLP1
        /\ tamper.kind \in {"truncate", "append"})
    => result.status = "error"

\* the layers read back equal the layers given: count, widths, tag when one
\* was given, every weight [o][i] and every bias, as float32
SameLayers(given, loaded) ==
    /\ Len(loaded) = Len(given)
    /\ \A l \in 1..Len(given) :
        /\ loaded[l].weight.shape = <<given[l].out_dim, given[l].in_dim>>
        /\ given[l].activation # NoTag => loaded[l].activation = given[l].activation
        /\ Len(loaded[l].weight.data) = given[l].out_dim * given[l].in_dim
        /\ \A o \in 1..given[l].out_dim : \A i \in 1..given[l].in_dim :
               At(loaded[l].weight, o, i)
                   = ToFloat32(given[l].weights[(o - 1) * given[l].in_dim + i])
        /\ Len(loaded[l].bias) = given[l].out_dim
        /\ \A o \in 1..given[l].out_dim : loaded[l].bias[o] = ToFloat32(given[l].biases[o])

\* C4: a file written by an MLP1 writer and read by load_mlp_bin, or written
\* by the MLP\x01 exporter and read by the round-trip test, yields the layers
\* that were exported, in order, with float32-equal weights and biases.
C4_RoundTrip ==
    (stage = "read" /\ tamper.kind = "none"
        /\ \/ (IsMLP1 /\ reader = "load_mlp_bin")
           \/ (~IsMLP1 /\ reader = "test_read_back"))
    => (result.status = "ok" /\ SameLayers(written, result.layers))

\* two layers with a non-square weight matrix went through write_mlp_bin and
\* load_mlp_bin
C4_Witness ==
    /\ stage = "read"
    /\ writer = "write_mlp_bin"
    /\ reader = "load_mlp_bin"
    /\ Len(written) = 2
    /\ written[1].in_dim = 2 /\ written[1].out_dim = 1
    /\ written[2].out_dim = 2
    /\ Len(result.layers) = 2

\* C5: every writer that returns leaves a file of exactly header + sum of
\* (layer header + 4*out*in + 4*out) bytes for the widths in the layer
\* headers, which are the widths of the layers given, and holds as many
\* layers as were given.
C5_WriterExactSize ==
    stage = "written"
    => /\ ExactSize(file, IsMLP1)
       /\ UnpackU32(SubSeq(file, HeaderSize(IsMLP1) - 3, HeaderSize(IsMLP1))) = Len(written)
       /\ \A l \in 1..Len(written) : Len(written[l].biases) = written[l].out_dim

\* a writer wrote a two-layer file with weights and biases
C5_Witness ==
    /\ stage = "written"
    /\ Len(written) = 2
    /\ written[1].in_dim = 2 /\ written[1].out_dim = 1
    /\ written[2].in_dim = 1 /\ written[2].out_dim = 2
    /\ Len(file) > 24

\* C6: no reader returns successfully on a file in which a layer's
\* outFeatures differs from the next layer's inFeatures.
C6_ChainChecked ==
    (stage = "read" /\ tamper.kind = "none" /\ result.status = "ok")
    => \A l \in 1..(Len(written) - 1) : written[l].out_dim = written[l + 1].in_dim

----------------------------------------------------------------------------
(* Claims about the forward passes *)

\* the activation a stored tag selects: 0 identity, 1 ReLU, 2 Tanh, 3 ELU
ActivationByTag(tag, v) ==
    IF tag = 1 THEN (IF v > 0 THEN v ELSE 0)
    ELSE IF tag = 2 THEN np_tanh(v)
    ELSE IF tag = 3 THEN (IF v > 0 THEN v ELSE 0 - Interpolate(Expm1Knots, 0 - v))
    ELSE v

RECURSIVE TaggedForward(_, _)
TaggedForward(layers, x) ==
    IF layers = << >> THEN Value(x)
    ELSE LET y == MatVecAdd(Head(layers).weight, x, Head(layers).bias)
         IN  IF ~y.ok THEN Raised
             ELSE TaggedForward(Tail(layers),
                      [k \in 1..Len(y.x) |-> ActivationByTag(Head(layers).activation, y.x[k])])

\* C7: the forward pass over a loaded model takes the layers in file order
\* and applies to each layer's W@x+b the activation its stored tag selects,
\* tag 3 being ELU.
C7_ActivationByTag ==
    fwd_stage = "done" => fwd_out = TaggedForward(fwd_layers, fwd_x)

\* the policy network's linear layers, in network order
LinearLayers(network) == SelectSeq(network, IsLinear)

\* C8: the loop over get_layer_params with ELU after every layer but the
\* last gives the output of the policy's own forward pass, and
\* get_layer_params yields exactly the network's linear layers, in network
\* order, each with shape [out, in].
C8_ManualMatchesNetwork ==
    pol_stage = "compared" =>
        LET layers == get_layer_params(pol_network)
            linear == LinearLayers(pol_network)
        IN  /\ pytorch_output.ok
            /\ manual_output = pytorch_output
            /\ Len(layers) = Len(linear)
            /\ \A l \in 1..Len(layers) :
                /\ layers[l].weights = linear[l].weight
                /\ layers[l].biases = linear[l].bias
                /\ layers[l].weights.shape = <<layers[l].out_dim, layers[l].in_dim>>
                /\ Len(layers[l].weights.data) = layers[l].out_dim * layers[l].in_dim

\* a policy with hidden layers was compared on an input for which the ELU
\* changes the output
C8_Witness ==
    /\ pol_stage = "compared"
    /\ Len(pol_network) >= 3
    /\ manual_output.ok
    /\ manual_output # nn_Sequential(LinearLayers(pol_network), pol_obs)

----------------------------------------------------------------------------
(* Claims about the observation layout *)

RECURSIVE SumDof(_, _)
SumDof(defs, j) == IF j = 0 THEN 0 ELSE defs[j][3] + SumDof(defs, j - 1)

RECURSIVE CountKeyBodies(_, _)
CountKeyBodies(defs, j) ==
    IF j = 0 THEN 0 ELSE (IF defs[j][4] THEN 1 ELSE 0) + CountKeyBodies(defs, j - 1)

FormulaDim(defs) ==
    1 + 6 + 3 + 3 + 2 * SumDof(defs, Len(defs)) + 3 * CountKeyBodies(defs, Len(defs))

RECURSIVE EntriesWritten(_)
EntriesWritten(ws) ==
    IF ws = << >> THEN 0 ELSE Head(ws)[3] - Head(ws)[2] + 1 + EntriesWritten(Tail(ws))

FrameFailed == pc \in {"AssertionError", "ValueError", "IndexError"}

\* C9: for a joint table with DOF counts in {0,1,3} the observation length
\* computed from the table is 1 + 6 + 3 + 3 + 2*totalDOF + 3*numKeyBodies,
\* and compute_frame writes exactly that many entries: after the key-body
\* block its write index equals obs_dim and the size assertion passes.
C9_ObsDimFormula ==
    (pc # "idle" /\ \A j \in 1..Len(bone_defs) : bone_defs[j][3] \in DofCounts) =>
        /\ OBS_DIM(bone_defs) = FormulaDim(bone_defs)
        /\ self.obs_dim = FormulaDim(bone_defs)
        /\ ~FrameFailed
        /\ (pc = "key_body" /\ kb >= Len(self.key_body_indices)) => idx = self.obs_dim
        /\ pc = "done" =>
            /\ idx = self.obs_dim
            /\ Len(obs) = self.obs_dim
            /\ EntriesWritten(writes) = self.obs_dim
            /\ \A i \in 1..Len(obs) : obs[i].field # "zero"

\* a frame was encoded for a table that is not the reference one and has a
\* joint of each DOF count and a key body
C9_Witness ==
    /\ pc = "done"
    /\ bone_defs # HUMANOID_BONE_DEFS
    /\ \A n \in DofCounts : \E j \in 1..Len(bone_defs) : bone_defs[j][3] = n
    /\ \E j \in 1..Len(bone_defs) : bone_defs[j][4]

\* the slices of the reference layout, in order: field, first and last index
ReferenceLayout ==
    << <<"root_h", 0, 0>>, <<"rot6d", 1, 6>>, <<"vel", 7, 9>>, <<"angvel", 10, 12>>,
       <<"dof_pos", 13, 49>>, <<"dof_vel", 50, 86>>,
       <<"key_body", 87, 89>>, <<"key_body", 90, 92>>, <<"key_body", 93, 95>>,
       <<"key_body", 96, 98>>, <<"key_body", 99, 101>> >>

ReferenceField(i) ==
    IF i = 0 THEN "root_h"
    ELSE IF i <= 6 THEN "rot6d"
    ELSE IF i <= 9 THEN "vel"
    ELSE IF i <= 12 THEN "angvel"
    ELSE IF i <= 49 THEN "dof_pos"
    ELSE IF i <= 86 THEN "dof_vel"
    ELSE "key_body"

\* C10: for the reference 17-joint table compute_frame writes the field
\* groups in the order and to the index ranges [0] root height, [1..6] root
\* rotation, [7..9] root velocity, [10..12] root angular velocity, [13..49]
\* DOF positions, [50..86] DOF velocities, [87..101] key-body positions,
\* without gap or overlap; the observation has 102 entries.
C10_ReferenceLayout ==
    (bone_defs = HUMANOID_BONE_DEFS /\ pc \notin {"idle", "constructed"}) =>
        /\ Len(obs) = 102
        /\ Len(writes) <= Len(ReferenceLayout)
        /\ writes = SubSeq(ReferenceLayout, 1, Len(writes))
        /\ ~FrameFailed
        /\ pc = "done" =>
            /\ writes = ReferenceLayout
            /\ \A i \in 0..101 : obs[i + 1].field = ReferenceField(i)

\* a frame was encoded for the reference table
C10_Witness ==
    /\ bone_defs = HUMANOID_BONE_DEFS
    /\ pc = "done"
    /\ idx = 102

\* the number of DOF entries of the joints before joint j (counted from 0)
DofOffset(defs, j) == SumDof(defs, j)

\* the observation holds the DOF positions
DofPositionsWritten == pc \in {"dof_vel", "key_body", "done"}

\* C17: DOF_MAPPINGS lists, for each joint in table order, the axes
\* 0..numDOF-1 in ascending order: its length is the total DOF count, a
\* 0-DOF joint has no entry, a 1-DOF joint only axis X, a 3-DOF joint X, Y, Z
\* in a row; _extract_dof_positions writes entry d from the joint and the
\* Euler component of DOF_MAPPINGS[d].
C17_DofMappingOrder ==
    pc # "idle" =>
        /\ Len(self.dof_mappings) = SumDof(bone_defs, Len(bone_defs))
        /\ \A j \in 0..(Len(bone_defs) - 1) :
              /\ \A ax \in 0..(bone_defs[j + 1][3] - 1) :
                    self.dof_mappings[DofOffset(bone_defs, j) + ax + 1] = <<j, ax>>
              /\ Cardinality({d \in 1..Len(self.dof_mappings) : self.dof_mappings[d][1] = j})
                    = bone_defs[j + 1][3]
        /\ \A d \in 1..(Len(self.dof_mappings) - 1) :
              \/ self.dof_mappings[d][1] < self.dof_mappings[d + 1][1]
              \/ /\ self.dof_mappings[d][1] = self.dof_mappings[d + 1][1]
                 /\ self.dof_mappings[d + 1][2] = self.dof_mappings[d][2] + 1
        /\ DofPositionsWritten =>
              \A d \in 1..Len(self.dof_mappings) :
                  obs[13 + d] = Entry("dof_pos", self.dof_mappings[d][1], self.dof_mappings[d][2])

\* the DOF positions were written for a table with a 3-DOF joint, then a
\* 0-DOF joint, then a 1-DOF joint: entry 3 is axis X of the third joint
C17_Witness ==
    /\ DofPositionsWritten
    /\ Len(bone_defs) = 3
    /\ bone_defs[1][3] = 3 /\ bone_defs[2][3] = 0 /\ bone_defs[3][3] = 1
    /\ self.dof_mappings = << <<0, 0>>, <<0, 1>>, <<0, 2>>, <<2, 0>> >>
    /\ obs[17] = Entry("dof_pos", 2, 0)

----------------------------------------------------------------------------
(* Claims about the joint tables *)

SameEntry(a, b) == a[1] = b[1] /\ a[2] = b[2] /\ a[3] = b[3] /\ a[4] = b[4]

\* C18: HUMANOID_BONE_DEFS of motion_dataset.py, convert_mocap_to_training.py
\* and convert_fbx_to_training.py have the same length and, at every index,
\* the same training name, engine bone name, DOF count and key-body flag, so
\* joint index i written by either converter is joint index i read by the
\* encoder.
C18_SameJointTable ==
    clip_in # << >> =>
        /\ Len(mocap_HUMANOID_BONE_DEFS) = Len(HUMANOID_BONE_DEFS)
        /\ Len(fbx_HUMANOID_BONE_DEFS) = Len(HUMANOID_BONE_DEFS)
        /\ \A i \in 1..Len(HUMANOID_BONE_DEFS) :
              /\ SameEntry(mocap_HUMANOID_BONE_DEFS[i], HUMANOID_BONE_DEFS[i])
              /\ SameEntry(fbx_HUMANOID_BONE_DEFS[i], HUMANOID_BONE_DEFS[i])
        /\ \A i \in 1..Len(clip_slots) :
              /\ clip_slots[i].joint_name = HUMANOID_BONE_DEFS[i][1]
              /\ clip_slots[i].bone \in {HUMANOID_BONE_DEFS[i][2], "identity"}
        /\ \A d \in 1..Len(clip_reads) :
              /\ ~clip_reads[d].raised
              /\ clip_reads[d].slot.joint_name = HUMANOID_BONE_DEFS[clip_reads[d].ji + 1][1]
              /\ clip_reads[d].axis < HUMANOID_BONE_DEFS[clip_reads[d].ji + 1][3]

\* the FBX converter wrote a frame from a complete skeleton and the encoder
\* read all 37 DOF entries from it, the last one from the left foot
C18_Witness ==
    /\ clip_in # << >>
    /\ clip_in.converter = "convert_fbx_to_training"
    /\ clip_in.found = EngineBones
    /\ Len(clip_slots) = 17
    /\ Len(clip_reads) = 37
    /\ clip_reads[37].slot = [joint_name |-> "left_foot", bone |-> "LeftFoot"]

----------------------------------------------------------------------------
(* Claims about the frame values *)

\* the entries first .. first + n - 1 (counted from 0) of an observation
Block(o, first, n) == SubSeq(o, first + 1, first + n)

AllZero(v) == \A k \in 1..Len(v) : v[k] = Zero

\* the field groups of the observation in frame_out
VelocityBlock == Block(frame_out.obs, 7, 3)
AngularVelocityBlock == Block(frame_out.obs, 10, 3)
DofPositionBlock == Block(frame_out.obs, 13, self.num_dofs)
DofVelocityBlock == Block(frame_out.obs, 13 + self.num_dofs, self.num_dofs)

FrameCalled == frame_in # << >>

\* the call had no previous root position, no previous root rotation or
\* dt <= 0
NoPrevious ==
    \/ frame_in.prev_root_pos = None
    \/ frame_in.prev_root_rot = None
    \/ Sign(frame_in.dt) <= 0

\* C11: when compute_frame is called with no previous root position or no
\* previous root rotation, or with dt <= 0, the root velocity block, the
\* root angular velocity block and the whole DOF velocity block are exactly
\* zero, whatever prev_joint_local_rots is, and no error is raised.
C11_NoPreviousZeroVelocity ==
    (FrameCalled /\ NoPrevious) =>
        /\ ~frame_out.raised
        /\ AllZero(VelocityBlock)
        /\ AllZero(AngularVelocityBlock)
        /\ Len(DofVelocityBlock) = self.num_dofs
        /\ AllZero(DofVelocityBlock)

\* a call with dt < 0 on a frame that moved, turned and changed pose since
\* the previous one
C11_Witness ==
    /\ FrameCalled
    /\ Sign(frame_in.dt) < 0
    /\ frame_in.prev_root_pos \notin {None, frame_in.root_pos}
    /\ frame_in.prev_root_rot \notin {None, frame_in.root_rot}
    /\ frame_in.prev_joint_local_rots \notin {None, << >>, frame_in.joint_local_rots}
    /\ self.num_dofs = 37
    /\ ~frame_out.raised

\* the second of two frames with identity root rotation and the same joint
\* rotations, encoded with the first as previous and dt > 0
TranslatedOnly ==
    /\ FrameCalled
    /\ frame_in.root_rot = quat_identity
    /\ frame_in.prev_root_rot = quat_identity
    /\ frame_in.prev_root_pos # None
    /\ frame_in.prev_joint_local_rots = frame_in.joint_local_rots
    /\ Sign(frame_in.dt) > 0

\* the first of the two frames, encoded without a previous frame
FirstFrame ==
    compute_frame(self, frame_in.prev_root_pos, frame_in.prev_root_rot, frame_in.prev_joint_local_rots, frame_in.joint_global_pos, None, None, None, frame_in.dt)

\* C12: for two consecutive frames with identity root rotation and the
\* same joint rotations that differ by a root translation d, the second
\* frame has root velocity d/dt component by component, an all-zero DOF
\* velocity block, an all-zero root angular velocity block and the DOF
\* position block of the first frame.
C12_TranslationVelocity ==
    TranslatedOnly =>
        /\ ~frame_out.raised
        /\ VelocityBlock = [k \in 1..3 |-> Div(Sub(frame_in.root_pos[k], frame_in.prev_root_pos[k]), frame_in.dt)]
        /\ AllZero(DofVelocityBlock)
        /\ Len(DofVelocityBlock) = self.num_dofs
        /\ AllZero(AngularVelocityBlock)
        /\ DofPositionBlock = Block(FirstFrame.obs, 13, self.num_dofs)

\* 1 m along +Z at dt = 1/30 on the reference table, in a pose that is not
\* the rest pose: the velocity is (0, 0, 30)
C12_Witness ==
    /\ TranslatedOnly
    /\ bone_defs = HUMANOID_BONE_DEFS
    /\ frame_in.prev_root_pos = <<Zero, One, Zero>>
    /\ frame_in.root_pos = <<Zero, One, One>>
    /\ frame_in.dt = Rat(1, 30)
    /\ ~AllZero(DofPositionBlock)
    /\ VelocityBlock = <<Zero, Zero, Whole(30)>>

\* horizontal offsets (dx, 0, dz)
Shifts == {<<One, Zero, Neg(Two)>>, <<Rat(0 - 1, 2), Zero, Whole(3)>>}

VecAdd(a, b) == [k \in 1..Len(a) |-> Add(a[k], b[k])]

\* compute_frame on the arguments of frame_in moved by the offset
ShiftedFrame(offset) ==
    compute_frame(self, VecAdd(frame_in.root_pos, offset), frame_in.root_rot, frame_in.joint_local_rots, [j \in 1..Len(frame_in.joint_global_pos) |-> VecAdd(frame_in.joint_global_pos[j], offset)], IF frame_in.prev_root_pos = None THEN None ELSE VecAdd(frame_in.prev_root_pos, offset), frame_in.prev_root_rot, frame_in.prev_joint_local_rots, frame_in.dt)

\* C14: adding the same offset (dx, 0, dz) to the root position, to every
\* joint global position and to the previous root position leaves every
\* entry of compute_frame's result unchanged.
C14_HorizontalTranslation ==
    FrameCalled => \A offset \in Shifts : ShiftedFrame(offset) = frame_out

\* a frame with a previous frame, a velocity and key bodies away from the
\* root, facing +X
C14_Witness ==
    /\ FrameCalled
    /\ ~frame_out.raised
    /\ ~NoPrevious
    /\ frame_in.root_rot = quat_from_axis_angle(YAxis, Whole(90))
    /\ ~AllZero(VelocityBlock)
    /\ ~AllZero(Block(frame_out.obs, 13 + 2 * self.num_dofs, 3))
    /\ \A offset \in Shifts : ShiftedFrame(offset).obs = frame_out.obs

----------------------------------------------------------------------------
(* Claims about the rotation functions *)

\* q and -q are the same rotation
SameRotation(a, b) == a = b \/ a = <<Neg(b[1]), Neg(b[2]), Neg(b[3]), Neg(b[4])>>

\* the forward vector (0, 0, 1) rotated by the input
Forward == quat_rotate_vec3(rot_in.q, ZAxis)

ForwardIsVertical == Forward[1] = Zero /\ Forward[3] = Zero

\* C13: for any unit root rotation q and any yaw rotation D about the up
\* axis, the heading-stripped rotation and the 6D root-rotation block
\* computed for D*q equal those computed for q, also when q maps the
\* forward vector onto the vertical axis.
C13_HeadingInvariance ==
    rot_op = "remove_heading" =>
        /\ SameRotation(rot_out.turned_heading_free, rot_out.heading_free)
        /\ rot_out.turned_rot6d = rot_out.rot6d

\* C13 for the rotations that keep the forward vector off the vertical axis
HeadingInvarianceOffVertical ==
    (rot_op = "remove_heading" /\ ~ForwardIsVertical) =>
        /\ SameRotation(rot_out.turned_heading_free, rot_out.heading_free)
        /\ rot_out.turned_rot6d = rot_out.rot6d

\* C15: for a rotation by t = +90 or -90 degrees about a single coordinate
\* axis, mat3_to_euler_xyz(quat_to_mat3(q)) has t in that axis's component
\* and 0 in the other two.
C15_AxisRotationEuler ==
    rot_op = "axis_euler" =>
        rot_out.euler = [k \in 1..3 |-> IF k = rot_out.axis THEN rot_out.t ELSE Zero]

\* what the decomposition returns instead: the angle with its sign reversed
AxisRotationEulerNegated ==
    rot_op = "axis_euler" =>
        rot_out.euler = [k \in 1..3 |-> IF k = rot_out.axis THEN Neg(rot_out.t) ELSE Zero]

\* C16: mat3_to_euler_xyz takes the gimbal-lock branch exactly when
\* |m[2][0]| >= 0.99999, returning z = 0 and y = +90 or -90 degrees with the
\* sign of m[2][0]; otherwise it returns the general three-angle solution;
\* it does not raise for a matrix with entries in [-1, 1].
C16_GimbalBranch ==
    rot_op = "euler" =>
        LET m == rot_out.m
            sy == m[3][1]
        IN  /\ ~rot_out.raised
            /\ IF LessEq(Rat(99999, 100000), abs(sy))
               THEN /\ rot_out.euler[3] = Zero
                    /\ rot_out.euler[2] = (IF Sign(sy) > 0 THEN Whole(90) ELSE Whole(0 - 90))
                    /\ rot_out.euler[1] = math_atan2(m[2][3], m[2][2])
               ELSE rot_out.euler = <<math_atan2(Neg(m[3][2]), m[3][3]), math_asin(sy), math_atan2(Neg(m[2][1]), m[1][1])>>

\* a matrix with m[2][0] exactly 0.99999 went through the gimbal-lock branch
C16_Witness ==
    /\ rot_op = "euler"
    /\ rot_out.m[3][1] = Rat(99999, 100000)
    /\ rot_out.m[2][3] # Zero
    /\ rot_out.euler[2] = Whole(90)
    /\ rot_out.euler[1] # Zero

\* whether the norm of the input q * 10^e is below 1e-12
NormBelowThreshold ==
    \/ SumSquares(rot_in.q) = Zero
    \/ BelowPow10(sqrt(SumSquares(rot_in.q)), One, 0 - 12 - rot_in.e)

\* C19: quat_normalize is idempotent on every quaternion of norm >= 1e-12
\* and returns the identity quaternion for every quaternion of norm below
\* 1e-12, the all-zero quaternion included.
C19_NormalizeIdempotent ==
    rot_op = "quat_normalize" =>
        IF NormBelowThreshold
        THEN rot_out.once = quat_identity
        ELSE rot_out.twice = rot_out.once

\* C19 for the quaternions whose squared norm is a finite float64
NormalizeIdempotentInRange ==
    (rot_op = "quat_normalize" /\ np_linalg_norm(rot_in.q, rot_in.e).kind # "inf") =>
        IF NormBelowThreshold
        THEN rot_out.once = quat_identity
        ELSE rot_out.twice = rot_out.once

\* C20: get_heading_angle on q written (x, y, z, w) and quat_yaw on q
\* written (w, x, y, z) both return atan2(x, z) of the forward vector
\* (0, 0, 1) rotated by q, for every unit rotation.
C20_HeadingFunctionsAgree ==
    rot_op = "heading" =>
        /\ rot_out.get_heading_angle = math_atan2(Forward[1], Forward[3])
        /\ rot_out.quat_yaw = math_atan2(Forward[1], Forward[3])

\* C20 for get_heading_angle alone, and for quat_yaw on the rotations whose
\* x and z components have the same square
HeadingFunctionsAgreeOnYaw ==
    rot_op = "heading" =>
        /\ rot_out.get_heading_angle = math_atan2(Forward[1], Forward[3])
        /\ Mul(rot_in.q[1], rot_in.q[1]) = Mul(rot_in.q[3], rot_in.q[3]) =>
              rot_out.quat_yaw = rot_out.get_heading_angle

\* C21: motion_dataset.quat_multiply on the (x, y, z, w) forms equals
\* state_encoder.quat_mul on the (w, x, y, z) forms of the same two
\* quaternions, once the result is reordered, and the two quat_inverse
\* functions agree in the same way.
C21_SameHamiltonProduct ==
    rot_op = "products" =>
        /\ rot_out.quat_multiply = xyzw(rot_out.quat_mul)
        /\ rot_out.quat_inverse = xyzw(rot_out.state_encoder_quat_inverse)

\* two quaternions that do not commute have been multiplied
C21_Witness ==
    /\ rot_op = "products"
    /\ rot_in.q = <<One, One, One, One>>
    /\ rot_out.q2 = <<Zero, Whole(3), Zero, Whole(4)>>
    /\ rot_out.quat_multiply # quat_multiply(rot_out.q2, rot_in.q)

----------------------------------------------------------------------------
(* Claims about the state encoder *)

\* the index at which slot k of a loop starts when every earlier slot has
\* its full width
SlotStart(enc, slot, k) ==
    IF slot = "current" THEN 0
    ELSE IF slot = "target" THEN (1 + k) * (11 + 10 * enc.num_joints)
    ELSE (1 + enc.tau) * (11 + 10 * enc.num_joints) + 7 * k

\* C22: observation_dim is (1 + tau)*(11 + 10*J) + 7*tau (429 for J = 20,
\* tau = 1 and 865 for J = 20, tau = 3); encode's vector has that length,
\* no write fails, every slot starts at the same index however many
\* target frames were supplied, and the write offset at the end equals
\* observation_dim.
C22_ObservationDim ==
    /\ observation_dim(StateEncoder(20, 1)) = 429
    /\ observation_dim(StateEncoder(20, 3)) = 865
    /\ enc_pc # "idle" =>
        /\ observation_dim(enc_self) = (1 + enc_self.tau) * (11 + 10 * enc_self.num_joints) + 7 * enc_self.tau
        /\ Len(enc_obs) = observation_dim(enc_self)
        /\ enc_pc # "raised"
        /\ \A i \in 1..Len(enc_starts) :
              enc_starts[i][3] = SlotStart(enc_self, enc_starts[i][1], enc_starts[i][2])
        /\ enc_pc = "done" =>
              /\ enc_offset = observation_dim(enc_self)
              /\ Len(enc_starts) = 1 + 2 * enc_self.tau

\* encode returned for two joints and tau = 3 with one target frame
\* supplied: the first target slot is written, the second is left zero
\* and the first root offset is written at its own index
C22_Witness ==
    /\ enc_pc = "done"
    /\ enc_self = StateEncoder(2, 3)
    /\ enc_targets = 1
    /\ enc_offset = 145
    /\ enc_obs[32].slot = <<"target", 0>>
    /\ enc_obs[63].field = "zero"
    /\ enc_obs[125].slot = <<"root_offset", 0>>

----------------------------------------------------------------------------
(* Claims about the latent library *)

\* the output width of the encoder of the run
LibOutDim == lib_args.encoder_layers[Len(lib_args.encoder_layers)].weight.shape[1]

\* C23: in every library document written, each behavior's latent list has
\* exactly latent_dim entries, latent_dim being the value in the same
\* document.
C23_LatentWidth ==
    lib_stage = "written" =>
        \A i \in 1..Len(lib_library.behaviors) :
            Len(lib_library.behaviors[i].latent) = lib_library.latent_dim

\* the same for the dummy library and for an encoder whose output width is
\* the --latent-dim argument
LatentWidthWhenDimsAgree ==
    lib_stage = "written" /\ (lib_args.dummy \/ LibOutDim = lib_args.latent_dim) =>
        \A i \in 1..Len(lib_library.behaviors) :
            Len(lib_library.behaviors[i].latent) = lib_library.latent_dim

\* C24: every latent vector of a library document has norm 1.
C24_LatentsNormalized ==
    lib_stage = "written" =>
        \A i \in 1..Len(lib_library.behaviors) :
            SumSquares(lib_library.behaviors[i].latent) = One

\* the same for the latents that are not all zero
NonzeroLatentsNormalized ==
    lib_stage = "written" =>
        \A i \in 1..Len(lib_library.behaviors) :
            LET latent == lib_library.behaviors[i].latent
            IN  (\E k \in 1..Len(latent) : latent[k] # Zero) => SumSquares(latent) = One

----------------------------------------------------------------------------
(* Claims about purity *)

----------------------------------------------------------------------------
(* Claims about the clip observations *)

\* the fps compute_clip_observations works with
ClipFps == IF cobs_fps = None THEN cobs_clip.fps ELSE cobs_fps

\* C26: compute_clip_observations encodes frame 0 with no previous frame
\* and frame i >= 1 with frame i - 1 of the clip as its previous frame,
\* calls the encoder once per frame, in order, with dt = 1/fps when
\* fps > 0 and 1/30 otherwise, and returns num_frames rows of obs_dim
\* entries.
C26_ClipFrames ==
    /\ \A i \in 1..Len(cobs_calls) :
          LET c == cobs_calls[i]
          IN  /\ c.root_pos = cobs_clip.root_positions[i]
              /\ c.root_rot = cobs_clip.root_rotations[i]
              /\ c.joint_local_rots = cobs_clip.joint_rotations[i]
              /\ c.joint_global_pos = cobs_clip.joint_positions[i]
              /\ i = 1 => c.prev_root_pos = None /\ c.prev_root_rot = None /\ c.prev_joint_local_rots = None
              /\ i > 1 => /\ c.prev_root_pos = cobs_clip.root_positions[i - 1]
                          /\ c.prev_root_rot = cobs_clip.root_rotations[i - 1]
                          /\ c.prev_joint_local_rots = cobs_clip.joint_rotations[i - 1]
              /\ c.dt = (IF Sign(ClipFps) > 0 THEN Inv(ClipFps) ELSE <<1, 0, 30>>)
    /\ cobs_stage = "returned" =>
          /\ Len(cobs_calls) = cobs_clip.num_frames
          /\ Len(cobs_observations) = cobs_clip.num_frames
          /\ \A i \in 1..Len(cobs_observations) :
                Len(cobs_observations[i]) = OBS_DIM(ShortTable)
    /\ cobs_stage # "raised"

\* a clip of three frames at 60 fps was encoded; the second and third
\* frames moved, so their velocity entries are not zero
C26_Witness ==
    /\ cobs_stage = "returned"
    /\ cobs_clip.num_frames = 3
    /\ cobs_fps = Whole(60)
    /\ cobs_clip.fps = Zero
    /\ cobs_calls[3].prev_root_pos = ClipRootPosition(1)
    /\ cobs_observations[1][8] = np_float32(Zero)
    /\ cobs_observations[3][8] # np_float32(Zero)

----------------------------------------------------------------------------
(* Claims about the motion dataset *)

\* no clip was encoded twice, and a clip has observations exactly if it
\* was encoded
EncodedAtMostOnce ==
    \A ci \in 1..Len(data_clips) :
        /\ data_clips[ci].encodes <= 1
        /\ data_clips[ci].encodes = 1 <=> ~data_clips[ci].observations.is_none

\* every row sample_observations has just returned is a row of the cached
\* observations of a clip of the dataset, at a frame index in
\* [0, num_frames)
RowsFromCache ==
    data_last = "sample_observations" =>
    \A i \in 1..Len(data_batch.rows) :
        \E ci \in 1..Len(data_clips) :
            /\ ~data_clips[ci].observations.is_none
            /\ \E fi \in 0..(data_clips[ci].num_frames - 1) :
                  data_batch.rows[i] = data_clips[ci].observations.rows[fi + 1]

\* C27: across any sequence of add_clip, compute_all_observations and
\* sample_observations calls each clip is encoded at most once, a clip
\* added after compute_all_observations is encoded on first use, and
\* sample_observations returns only rows of a clip's cached observations
\* at an index in [0, num_frames).
C27_EncodedOnceRowsFromCache == EncodedAtMostOnce /\ RowsFromCache

\* the same for the calls made on a dataset that holds a clip
RowsFromCacheWithClips == EncodedAtMostOnce /\ (data_clips # << >> => RowsFromCache)

\* a clip added after compute_all_observations was sampled and is cached
LateClipEncodedOnUse ==
    /\ data_ops = 4
    /\ data_last = "sample_observations"
    /\ Len(data_clips) = 2
    /\ data_clips[2].encodes = 1
    /\ Len(data_batch.rows) = 2
    /\ data_batch.rows[1] = ObsRow(1, 0)
    /\ data_batch.rows[2] = ObsRow(0, 1)

----------------------------------------------------------------------------
(* Claims about the activation tags *)

\* the numLayers field of an MLP1 file
NumLayersField(f) == UnpackU32(SubSeq(f, 9, 12))

----------------------------------------------------------------------------
(* Claims about the extraction of layers *)

\* the number a module name stands for
ModuleNumber(name) == CHOOSE n \in 0..(2 * MaxLinear + 2) : str(n) = name

\* the weight keys under the prefix in network order: by module number
RECURSIVE NetworkOrder(_)
NetworkOrder(keys) ==
    IF keys = {} THEN << >>
    ELSE LET first == CHOOSE k \in keys : \A j \in keys :
                          ModuleNumber(k[2]) <= ModuleNumber(j[2])
         IN  <<first>> \o NetworkOrder(keys \ {first})

SeqWeightKeys == {k \in DOMAIN seq_state_dict : k[1] = SeqPrefix /\ k[3] = "weight"}

SeqHasBias(wk) == <<wk[1], wk[2], "bias">> \in DOMAIN seq_state_dict

\* the i-th entry of the activations list, None past its end
SeqActivation(i) ==
    IF i <= Len(seq_activations) THEN seq_activations[i] ELSE ACTIVATION_NONE

\* the layers returned are the Linear modules that have a bias, in network
\* order
InNetworkOrder ==
    LET kept == SelectSeq(NetworkOrder(SeqWeightKeys), SeqHasBias)
    IN  /\ Len(seq_layers) = Len(kept)
        /\ \A i \in 1..Len(kept) :
              /\ seq_layers[i].weight = seq_state_dict[kept[i]]
              /\ seq_layers[i].bias = seq_state_dict[<<kept[i][1], kept[i][2], "bias">>]

\* every layer returned carries the activation of its module's place among
\* the Linear modules of the network
ActivationsByNetworkPosition ==
    LET net == NetworkOrder(SeqWeightKeys)
    IN  \A p \in 1..Len(net) : \A i \in 1..Len(seq_layers) :
            seq_layers[i].weight = seq_state_dict[net[p]]
            => seq_layers[i].activation = SeqActivation(p)

\* C29: extract_sequential_layers returns the linear layers under the
\* prefix in network order, the i-th entry of the activations list on the
\* i-th linear layer of the network (None past the end of the list), also
\* with module numbers of 10 and above and when a weight without a bias is
\* skipped.
C29_LayersInNetworkOrder ==
    seq_stage = "returned" => InNetworkOrder /\ ActivationsByNetworkPosition

\* with every module number below 10 the layers come in network order
OrderBelowTen ==
    (seq_stage = "returned" /\ \A k \in SeqWeightKeys : ModuleNumber(k[2]) < 10)
    => InNetworkOrder

\* with every module number below 10 and a bias on every Linear module the
\* activations are those of the network positions
ActivationsWhenNothingSkipped ==
    (seq_stage = "returned"
        /\ \A k \in SeqWeightKeys : ModuleNumber(k[2]) < 10 /\ SeqHasBias(k))
    => ActivationsByNetworkPosition

----------------------------------------------------------------------------
(* Claims about the dummy environment *)

\* C30: in a DummyVecEnv with episode_length >= 1 every step counter is in
\* [0, episode_length) after any reset and step calls; step reports done for
\* an environment exactly on every episode_length-th step since the last
\* reset, then reports the length episode_length in that environment's info
\* and leaves its counter at 0; reset sets every counter to 0.
C30_EpisodeCounters ==
    venv_last \in {"init", "reset", "step"}
    => /\ \A i \in 1..venv_self.num_envs :
             /\ venv_self._step_counts[i] >= 0
             /\ venv_self._step_counts[i] < venv_self.episode_length
       /\ venv_last = "reset"
             => \A i \in 1..venv_self.num_envs : venv_self._step_counts[i] = 0
       /\ venv_last = "step"
             => \A i \in 1..venv_self.num_envs :
                   /\ venv_out.dones[i] <=> venv_steps % venv_self.episode_length = 0
                   /\ venv_out.infos[i].has_episode <=> venv_out.dones[i]
                   /\ venv_out.dones[i]
                        => /\ venv_out.infos[i].l = venv_self.episode_length
                           /\ venv_self._step_counts[i] = 0

\* two environments with episodes of three steps: the sixth step since the
\* reset ended the second episode of both
C30_Witness ==
    /\ venv_last = "step"
    /\ venv_self.num_envs = 2
    /\ venv_self.episode_length = 3
    /\ venv_steps = 6
    /\ venv_calls > venv_steps
    /\ venv_out.dones = <<TRUE, TRUE>>
    /\ venv_out.infos[2].l = 3
    /\ venv_self._step_counts = <<0, 0>>

====
